---- MODULE Spec2Model ----
(***************************************************************************)
(* Wi-Fi Direct P2P echo demo: the session context and its event           *)
(* dispatcher (wifi_p2p_utils.c), the pairing work handlers and the echo   *)
(* start/stop code (main.c), and the echo loops (udp_utils.c).             *)
(*                                                                         *)
(* Execution contexts:                                                     *)
(*   - the net_mgmt event thread, which runs p2p_mgmt_event_handler and    *)
(*     net_mgmt_event_handler, one notification at a time;                 *)
(*   - the system work queue, which runs p2p_start_handler,                *)
(*     p2p_connect_handler and dhcp_bound_handler, one item at a time;     *)
(*   - the button callback context;                                        *)
(*   - start_wifi_thread;                                                  *)
(*   - the echo server thread and the echo client thread.                  *)
(* A step of a context runs from one blocking point (k_sleep, k_sem_take,  *)
(* a net_mgmt request, a socket call) to the next.                         *)
(***************************************************************************)
EXTENDS Integers, Sequences, FiniteSets, TLC

\* ------------------------------------------------------------------ bounds
\* Largest number of events of the surroundings in a behaviour: notifications,
\* button presses, Wi-Fi ready callbacks.
MaxEvents == 4
\* Largest number of echo client iterations / echo server packets per session.
MaxSeq == 2

\* Socket handles the system can hand out.
NumFds == 2

\* ------------------------------------------------------- program constants
\* Capacity of discovered_peers[] (CONFIG_WIFI_P2P_MAX_PEERS).
WIFI_P2P_MAX_PEERS == 3
\* UDP_RECV_TIMEOUT_MS, in ticks of 500 ms.
UDP_RECV_TIMEOUT_TICKS == 4
\* The k_sleep(K_MSEC(500)) of stop_udp_echo, in ticks of 500 ms.
STOP_GRACE_TICKS == 1
\* errno values returned by the wait functions, and by k_sem_take.
ETIMEDOUT == 116
EIO == 5
EAGAIN == 11
EBUSY == 16
\* The timeouts main.c passes to the waits (CONFIG_P2P_GROUP_FORMATION_TIMEOUT_MS,
\* CONFIG_P2P_AP_STA_CONNECTED_TIMEOUT_MS): positive; their length is not
\* modelled.
TIMEOUT_MS == 1
\* The largest value of a uint16_t (peer_count, discovered_peer_count).
UINT16_MAX == 65535
\* WIFI_MAC_ADDR_LEN bytes of zero, as written by memset(.., 0, ..).
MacZero == <<0, 0, 0, 0, 0, 0>>

\* Hardware addresses of the devices in radio range.
MacA == <<2, 0, 0, 0, 0, 1>>
MacB == <<2, 0, 0, 0, 0, 2>>
MacC == <<2, 0, 0, 0, 0, 3>>
MacD == <<2, 0, 0, 0, 0, 4>>
PeerMacs == {MacA, MacB}
\* enum wifi_p2p_state
P2PStates ==
  {"IDLE", "FINDING", "FOUND", "CONNECTING", "CONNECTED", "GROUP_FORMED", "ERROR"}
\* enum wifi_p2p_role
P2PRoles == {"UNDETERMINED", "GO", "CLI"}
\* enum wifi_p2p_event
P2PEvents ==
  {"DEVICE_FOUND", "GROUP_STARTED", "CONNECTED", "CONNECT_FAILED", "PEER_JOINED",
   "AP_STA_CONNECTED", "PEER_LEFT", "DISCONNECTED"}
\* The five K_SEM_DEFINE gates of wifi_p2p_utils.c.
GateNames ==
  {"p2p_find_sem", "p2p_connect_sem", "p2p_group_formed_sem",
   "p2p_go_neg_request_sem", "p2p_ap_sta_connected_sem"}

VARIABLES
  \* ---- wifi_p2p_utils.c
  ctx,            \* p2p_ctx: struct wifi_p2p_context
  sems,           \* the five gates: per semaphore its count (limit 1) and whether
                  \* it was given since it was last reset
  user_event_cb,  \* TRUE once p2p_event_handler is registered
  p2p_mgmt_cb,    \* TRUE once p2p_mgmt_event_handler is registered with net_mgmt
  \* ---- the radio / network subsystem as the program sees it
  iface,          \* TRUE iff net_if_get_first_wifi() returns an interface
  link_up,        \* interface activated: net_if_up, carrier on, dormant off
  radio_reqs,     \* NET_REQUEST_WIFI_P2P_OPER requests issued since the attempt began
  \* ---- the net_mgmt event thread
  disp_pc,        \* its position: "idle", "ret", "stop_sleep"
  last_ntf,       \* the notification it is handling
  sink,           \* what the handler of last_ntf forwarded to the user callback
  n_device_found, \* DEVICE_FOUND notifications forwarded since the last reset
  \* ---- main.c: pairing
  cfg,            \* the Kconfig values the build was made with
  env,            \* what the surroundings can produce: peer lists, round-trip times
  discovered_peers,        \* discovered_peers[0 .. discovered_peer_count-1]
  p2p_pairing_in_progress,
  dhcp_bound_handled,
  dhcp_bound_cb,  \* net_utils.c: TRUE once a bound callback is set and registered
  workq,          \* system work queue: the pending work items, in order
  wq_pc,          \* position of the work queue thread
  target_peer,    \* p2p_connect_handler's local: the selected peer, or NoPeer
  wifi_pc,        \* start_wifi_thread: the k_sem_take it is blocked in
  btn_pc,         \* position of the button callback context
  \* ---- main.c / udp_utils.c: echo
  udp_socket,     \* -1 or a socket handle
  socks,          \* per handle: "closed", "timeo" (open, SO_RCVTIMEO set), "notimeo"
  udp_echo_stop_flag,
  echo_stats,     \* struct udp_echo_stats
  rtt_log,        \* the round-trip times measured since echo_stats was last reset
  srv,            \* echo server thread: [pc, sock]
  cli,            \* echo client thread: [pc, sock, seq, timer]
  stop_timer,     \* remaining grace ticks of stop_udp_echo, per calling context
  \* ---- the surroundings
  env_events,     \* events of the surroundings so far
  \* ---- history
  formation_ntfs, \* the group-formation results (connect-result success,
                  \* AP-enable success or failure) handled since wifi_p2p_connect
                  \* last issued its request
  ap_enabled,     \* TRUE iff an AP-enable success was handled since wifi_p2p_init
                  \* last ran
  joined_sta,     \* the address of the last station-connected notification handled
                  \* since wifi_p2p_init, until a station-disconnected notification
                  \* for that address is handled; NullInfo if there is none
  \* ---- a direct caller of wifi_p2p_utils.h
  api_call        \* the function it called last and the value returned

p2pVars  == <<ctx, sems, user_event_cb, p2p_mgmt_cb, link_up>>
dispVars == <<disp_pc, last_ntf, sink>>
pairVars ==
  <<discovered_peers, p2p_pairing_in_progress, dhcp_bound_handled, dhcp_bound_cb,
    wq_pc, target_peer, radio_reqs>>
echoVars == <<udp_socket, socks, echo_stats, rtt_log, srv, cli>>
vars ==
  <<ctx, sems, user_event_cb, p2p_mgmt_cb, iface, link_up, radio_reqs, disp_pc,
    last_ntf, sink, n_device_found, cfg, env, discovered_peers, p2p_pairing_in_progress,
    dhcp_bound_handled, dhcp_bound_cb, workq, wq_pc, target_peer, wifi_pc, btn_pc,
    udp_socket, socks, udp_echo_stop_flag, echo_stats, rtt_log, srv, cli, stop_timer,
    env_events, formation_ntfs, ap_enabled, joined_sta, api_call>>

\* ----------------------------------------------------------------- helpers
\* memset(&p2p_ctx, 0, ..); state = IDLE; role = UNDETERMINED
CtxZero ==
  [state |-> "IDLE", role |-> "UNDETERMINED", peer_mac |-> MacZero, peer_count |-> 0,
   go_intent |-> 0, frequency |-> 0, group_formed |-> FALSE, connected |-> FALSE]

\* K_SEM_DEFINE(.., 0, 1): the count is 0.
SemZero == [count |-> 0, given |-> FALSE]

\* k_sem_give on a semaphore without a limit.
k_sem_give_NoLimit(s, g) == [s EXCEPT ![g] = [count |-> s[g].count + 1, given |-> TRUE]]

\* k_sem_give on a semaphore of limit 1: the count saturates at 1.
k_sem_give(s, g) == [s EXCEPT ![g] = [count |-> 1, given |-> TRUE]]

\* k_sem_reset: the count becomes 0.
k_sem_reset(s, g) == [s EXCEPT ![g] = SemZero]

\* A k_sem_take that ends: the count is 0 afterwards, taken or timed out.
k_sem_take(s, g) == [s EXCEPT ![g].count = 0]

\* What that k_sem_take returns: 0 when it took the semaphore; otherwise
\* -EBUSY when it was called with K_NO_WAIT, which K_MSEC(0) is, and -EAGAIN
\* when its waiting period ended or the semaphore was reset.
k_sem_take_ret(s, g, timeout_ms) ==
  IF s[g].count > 0 THEN 0
  ELSE IF timeout_ms = 0 THEN -EBUSY
  ELSE -EAGAIN

\* notify_user_event: the callback receives the event and a pointer to p2p_ctx,
\* i.e. the context as it is at the moment of the call.
notify_user_event(snk, ev, c) ==
  IF user_event_cb
    THEN Append(snk, [ev |-> ev, state |-> c.state, role |-> c.role,
                      connected |-> c.connected])
    ELSE snk

\* cb->info == NULL of a peer-found notification.
NullInfo == <<>>
NoNtf == [kind |-> "none", mac |-> NullInfo, status |-> 0]
\* No function of wifi_p2p_utils.h was called directly.
NoCall == [fn |-> "none", ret |-> 0]

\* The notifications the radio subsystem can raise: the five kinds
\* p2p_mgmt_cb subscribes to (arg: the peer's address, or the status), and
\* NET_EVENT_WIFI_DISCONNECT_RESULT, the link-lost notification, which it does not.
Notifications ==
  [kind : {"P2P_DEVICE_FOUND"}, mac : PeerMacs \cup {NullInfo}, status : {0}]
    \cup [kind : {"CONNECT_RESULT", "AP_ENABLE_RESULT"}, mac : {NullInfo},
          status : {0, 1}]
    \cup [kind : {"AP_STA_CONNECTED", "AP_STA_DISCONNECTED"}, mac : PeerMacs,
          status : {0}]
    \cup [kind : {"DISCONNECT_RESULT"}, mac : {NullInfo}, status : {0}]

\* The group-formation result a notification carries, if any.
FormationResult(n) ==
  IF n.kind = "CONNECT_RESULT" /\ n.status = 0 THEN {"CONNECT_OK"}
  ELSE IF n.kind = "AP_ENABLE_RESULT"
    THEN {IF n.status = 0 THEN "AP_ENABLE_OK" ELSE "AP_ENABLE_FAILED"}
  ELSE {}

\* What a handler hands back: the context, the gates, the user sink, the link.
Out(c, s, snk, up) == [ctx |-> c, sems |-> s, sink |-> snk, link_up |-> up]

\* ------------------------------------------------ wifi_p2p_utils.c handlers
\* handle_p2p_device_found without its check of cb->info: the peer is counted
\* although nothing is forwarded.
handle_p2p_device_found_NoInfoCheck(c, s, snk, up, info) ==
  LET c1 == [c EXCEPT !.peer_count = (c.peer_count + 1) % (UINT16_MAX + 1),
                      !.state = "FOUND"]
  IN  IF info = NullInfo
        THEN Out(c1, k_sem_give(s, "p2p_find_sem"), snk, up)
        ELSE Out([c1 EXCEPT !.peer_mac = info], k_sem_give(s, "p2p_find_sem"),
                 notify_user_event(snk, "DEVICE_FOUND", [c1 EXCEPT !.peer_mac = info]),
                 up)

handle_p2p_device_found(c, s, snk, up, info) ==
  IF info = NullInfo
    THEN Out(c, s, snk, up)
    ELSE LET c1 == [c EXCEPT !.peer_mac = info,
                             !.peer_count = (c.peer_count + 1) % (UINT16_MAX + 1),
                             !.state = "FOUND"]
         IN  Out(c1, k_sem_give(s, "p2p_find_sem"),
                 notify_user_event(snk, "DEVICE_FOUND", c1), up)

\* handle_p2p_connect_result without the CONNECTING check: every failure is fatal.
handle_p2p_connect_result_AlwaysFatal(c, s, snk, up, status) ==
  IF status = 0
    THEN LET c1   == IF c.role # "GO" THEN [c EXCEPT !.role = "CLI"] ELSE c
             snk1 == IF c.role # "GO"
                       THEN notify_user_event(snk, "CONNECTED", c1)
                       ELSE notify_user_event(snk, "PEER_JOINED", c1)
             c2   == [c1 EXCEPT !.state = "CONNECTED", !.connected = TRUE,
                                !.group_formed = TRUE]
         IN  Out(c2, k_sem_give(k_sem_give(s, "p2p_connect_sem"),
                                "p2p_group_formed_sem"), snk1, up)
    ELSE LET c1 == [c EXCEPT !.state = "ERROR"]
         IN  Out(c1, k_sem_give(k_sem_give(s, "p2p_connect_sem"),
                                "p2p_group_formed_sem"),
                 notify_user_event(snk, "CONNECT_FAILED", c1), up)

\* handle_p2p_connect_result whose fatal branch gives p2p_connect_sem only.
handle_p2p_connect_result_NoGroupGate(c, s, snk, up, status) ==
  IF status = 0
    THEN LET c1   == IF c.role # "GO" THEN [c EXCEPT !.role = "CLI"] ELSE c
             snk1 == IF c.role # "GO"
                       THEN notify_user_event(snk, "CONNECTED", c1)
                       ELSE notify_user_event(snk, "PEER_JOINED", c1)
             c2   == [c1 EXCEPT !.state = "CONNECTED", !.connected = TRUE,
                                !.group_formed = TRUE]
         IN  Out(c2, k_sem_give(k_sem_give(s, "p2p_connect_sem"),
                                "p2p_group_formed_sem"), snk1, up)
    ELSE IF c.state = "CONNECTING"
           THEN Out(c, s, snk, up)
           ELSE LET c1 == [c EXCEPT !.state = "ERROR"]
                IN  Out(c1, k_sem_give(s, "p2p_connect_sem"),
                        notify_user_event(snk, "CONNECT_FAILED", c1), up)

\* handle_p2p_connect_result that makes the device a client on every success.
handle_p2p_connect_result_AlwaysClient(c, s, snk, up, status) ==
  IF status = 0
    THEN LET c1 == [c EXCEPT !.role = "CLI"]
             c2 == [c1 EXCEPT !.state = "CONNECTED", !.connected = TRUE,
                              !.group_formed = TRUE]
         IN  Out(c2, k_sem_give(k_sem_give(s, "p2p_connect_sem"),
                                "p2p_group_formed_sem"),
                 notify_user_event(snk, "CONNECTED", c1), up)
    ELSE IF c.state = "CONNECTING"
           THEN Out(c, s, snk, up)
           ELSE LET c1 == [c EXCEPT !.state = "ERROR"]
                IN  Out(c1, k_sem_give(k_sem_give(s, "p2p_connect_sem"),
                                       "p2p_group_formed_sem"),
                        notify_user_event(snk, "CONNECT_FAILED", c1), up)

handle_p2p_connect_result(c, s, snk, up, status) ==
  IF status = 0
    THEN LET c1   == IF c.role # "GO" THEN [c EXCEPT !.role = "CLI"] ELSE c
             snk1 == IF c.role # "GO"
                       THEN notify_user_event(snk, "CONNECTED", c1)
                       ELSE notify_user_event(snk, "PEER_JOINED", c1)
             c2   == [c1 EXCEPT !.state = "CONNECTED", !.connected = TRUE,
                                !.group_formed = TRUE]
         IN  Out(c2, k_sem_give(k_sem_give(s, "p2p_connect_sem"),
                                "p2p_group_formed_sem"), snk1, up)
    ELSE IF c.state = "CONNECTING"
           THEN Out(c, s, snk, up)
           ELSE LET c1 == [c EXCEPT !.state = "ERROR"]
                IN  Out(c1, k_sem_give(k_sem_give(s, "p2p_connect_sem"),
                                       "p2p_group_formed_sem"),
                        notify_user_event(snk, "CONNECT_FAILED", c1), up)

\* handle_ap_enable_result without its activation of the interface.
handle_ap_enable_result_NoActivation(c, s, snk, up, status) ==
  IF status = 0
    THEN LET c1 == [c EXCEPT !.role = "GO", !.group_formed = TRUE,
                             !.state = "GROUP_FORMED", !.connected = TRUE]
         IN  Out(c1, k_sem_give(s, "p2p_group_formed_sem"),
                 notify_user_event(snk, "GROUP_STARTED", c1), up)
    ELSE LET c1 == [c EXCEPT !.state = "ERROR"]
         IN  Out(c1, k_sem_give(s, "p2p_group_formed_sem"),
                 notify_user_event(snk, "CONNECT_FAILED", c1), up)

handle_ap_enable_result(c, s, snk, up, status) ==
  IF status = 0
    THEN LET c1 == [c EXCEPT !.role = "GO", !.group_formed = TRUE,
                             !.state = "GROUP_FORMED", !.connected = TRUE]
         IN  Out(c1, k_sem_give(s, "p2p_group_formed_sem"),
                 notify_user_event(snk, "GROUP_STARTED", c1), up \/ iface)
    ELSE LET c1 == [c EXCEPT !.state = "ERROR"]
         IN  Out(c1, k_sem_give(s, "p2p_group_formed_sem"),
                 notify_user_event(snk, "CONNECT_FAILED", c1), up)

\* handle_ap_sta_connected forwarding its two events in the other order.
handle_ap_sta_connected_EventsSwapped(c, s, snk, up, mac) ==
  LET c1 == [c EXCEPT !.connected = TRUE, !.peer_mac = mac]
  IN  Out(c1, k_sem_give(s, "p2p_ap_sta_connected_sem"),
          notify_user_event(notify_user_event(snk, "AP_STA_CONNECTED", c1),
                            "PEER_JOINED", c1), up)

handle_ap_sta_connected(c, s, snk, up, mac) ==
  LET c1 == [c EXCEPT !.connected = TRUE, !.peer_mac = mac]
  IN  Out(c1, k_sem_give(s, "p2p_ap_sta_connected_sem"),
          notify_user_event(notify_user_event(snk, "PEER_JOINED", c1),
                            "AP_STA_CONNECTED", c1), up)

\* handle_ap_sta_disconnected without its comparison of the addresses.
handle_ap_sta_disconnected_AnyAddress(c, s, snk, up, mac) ==
  LET c1 == [c EXCEPT !.connected = FALSE, !.peer_mac = MacZero]
  IN  Out(c1, s, notify_user_event(snk, "PEER_LEFT", c1), up)

handle_ap_sta_disconnected(c, s, snk, up, mac) ==
  IF c.peer_mac = mac
    THEN LET c1 == [c EXCEPT !.connected = FALSE, !.peer_mac = MacZero]
         IN  Out(c1, s, notify_user_event(snk, "PEER_LEFT", c1), up)
    ELSE Out(c, s, snk, up)

\* The switch of p2p_mgmt_event_handler.
p2p_mgmt_event_handler(c, s, snk, up, n) ==
  CASE n.kind = "P2P_DEVICE_FOUND"    -> handle_p2p_device_found(c, s, snk, up, n.mac)
    [] n.kind = "CONNECT_RESULT"      -> handle_p2p_connect_result(c, s, snk, up, n.status)
    [] n.kind = "AP_ENABLE_RESULT"    -> handle_ap_enable_result(c, s, snk, up, n.status)
    [] n.kind = "AP_STA_CONNECTED"    -> handle_ap_sta_connected(c, s, snk, up, n.mac)
    [] n.kind = "AP_STA_DISCONNECTED" -> handle_ap_sta_disconnected(c, s, snk, up, n.mac)
    [] OTHER                          -> Out(c, s, snk, up)

\* The events for which p2p_event_handler calls stop_udp_echo.
StopsEcho(snk) ==
  \E i \in 1..Len(snk) : snk[i].ev \in {"PEER_LEFT", "DISCONNECTED"}

\* The DEVICE_FOUND entries of a sink.
CountFound(snk) == Cardinality({i \in 1..Len(snk) : snk[i].ev = "DEVICE_FOUND"})

\* ----------------------------------------------------------- echo: sockets
Fds == 0 .. (NumFds - 1)
IsOpen(sk, fd) == fd \in Fds /\ sk[fd] # "closed"
FreeFds(sk) == {f \in Fds : sk[f] = "closed"}
\* zsock_socket hands out the lowest free handle.
LowestFree(sk) == CHOOSE f \in FreeFds(sk) : \A g \in FreeFds(sk) : f <= g

\* CONFIG_UDP_ECHO_PACKET_SIZE, in units of one packet.
PacketSize == 1
\* The largest value of an unsigned word. The code's words are 32 bits wide;
\* the model's are 16 bits wide, TLC's integers being 32-bit signed.
UINT32_MAX == 65535

\* udp_echo_reset_stats
StatsZero ==
  [packets_sent |-> 0, packets_received |-> 0, bytes_sent |-> 0, bytes_received |-> 0,
   packets_lost |-> 0, rtt_min_us |-> UINT32_MAX, rtt_max_us |-> 0, rtt_avg_us |-> 0,
   rtt_total_us |-> 0]

\* udp_echo_client_run, ret > 0: a reply of ret bytes after rtt microseconds.
ClientOnReply(st, ret, rtt) ==
  LET n   == st.packets_received + 1
      tot == st.rtt_total_us + rtt
  IN  [st EXCEPT !.packets_sent = @ + 1, !.packets_received = n,
                 !.bytes_sent = @ + PacketSize, !.bytes_received = @ + ret,
                 !.rtt_min_us = IF n = 1 \/ rtt < @ THEN rtt ELSE @,
                 !.rtt_max_us = IF rtt > @ THEN rtt ELSE @,
                 !.rtt_total_us = tot,
                 !.rtt_avg_us = (tot \div n) % (UINT32_MAX + 1)]

\* The timeout branch without packets_lost++.
ClientOnTimeout_NoLost(st) ==
  [st EXCEPT !.packets_sent = @ + 1, !.bytes_sent = @ + PacketSize]

\* udp_echo_client_run, ret == -ETIMEDOUT.
ClientOnTimeout(st) ==
  [st EXCEPT !.packets_sent = @ + 1, !.packets_lost = @ + 1,
             !.bytes_sent = @ + PacketSize]

\* udp_echo_server_run: a datagram of recv_len bytes was received.
ServerOnReceive(st, recv_len) ==
  [st EXCEPT !.packets_received = @ + 1, !.bytes_received = @ + recv_len]

\* udp_echo_server_run: the echo of send_len bytes was sent.
ServerOnSent(st, send_len) ==
  [st EXCEPT !.packets_sent = @ + 1, !.bytes_sent = @ + send_len]

\* The event thread runs a handler to its end before any other context runs.
Quiet == disp_pc # "ret"

\* The surroundings produce one more event.
EnvEvent ==
  /\ env_events < MaxEvents
  /\ env_events' = env_events + 1

\* ------------------------------------------------------ main.c: stop echo
\* stop_udp_echo up to its k_sleep, in calling context k.
StopBegin(k) ==
  /\ udp_echo_stop_flag' = TRUE
  /\ stop_timer' = [stop_timer EXCEPT ![k] = STOP_GRACE_TICKS]

\* stop_udp_echo after its k_sleep: close the socket if there is one.
StopEnd(k) ==
  /\ stop_timer[k] = 0
  /\ IF udp_socket >= 0
       THEN /\ socks' = [socks EXCEPT ![udp_socket] = "closed"]
            /\ udp_socket' = -1
       ELSE UNCHANGED <<socks, udp_socket>>

\* k_work_submit: an item already pending is not queued twice.
k_work_submit(q, w) ==
  IF \E i \in 1..Len(q) : q[i] = w THEN q ELSE Append(q, w)

\* -------------------------------------------------- the net_mgmt event thread
\* One notification of the radio subsystem is handled: p2p_mgmt_event_handler
\* and, through notify_user_event, p2p_event_handler up to its first k_sleep.
DeliverNotification ==
  /\ disp_pc = "idle"
  /\ p2p_mgmt_cb
  /\ EnvEvent
  /\ \E n \in Notifications :
       /\ LET r == p2p_mgmt_event_handler(ctx, sems, <<>>, link_up, n)
          IN  /\ ctx' = r.ctx
              /\ sems' = r.sems
              /\ sink' = r.sink
              /\ link_up' = r.link_up
              /\ last_ntf' = n
              /\ n_device_found' = n_device_found + CountFound(r.sink)
              /\ formation_ntfs' = formation_ntfs \cup FormationResult(n)
              /\ ap_enabled' = (ap_enabled \/ "AP_ENABLE_OK" \in FormationResult(n))
              /\ joined_sta' =
                   IF n.kind = "AP_STA_CONNECTED" THEN n.mac
                   ELSE IF n.kind = "AP_STA_DISCONNECTED" /\ n.mac = joined_sta
                     THEN NullInfo
                   ELSE joined_sta
              /\ IF StopsEcho(r.sink)
                   THEN /\ StopBegin("disp")
                        /\ disp_pc' = "stop_sleep"
                   ELSE /\ disp_pc' = "ret"
                        /\ UNCHANGED <<udp_echo_stop_flag, stop_timer>>
  /\ UNCHANGED <<user_event_cb, p2p_mgmt_cb, iface, radio_reqs, cfg, env, api_call,
                 discovered_peers, p2p_pairing_in_progress, dhcp_bound_handled,
                 dhcp_bound_cb, workq, wq_pc, target_peer, wifi_pc, btn_pc, udp_socket,
                 socks, echo_stats, rtt_log, srv, cli>>

\* p2p_event_handler, PEER_LEFT / DISCONNECTED: stop_udp_echo after its k_sleep.
EventThreadStopEnd ==
  /\ disp_pc = "stop_sleep"
  /\ UNCHANGED env_events
  /\ StopEnd("disp")
  /\ disp_pc' = "ret"
  /\ UNCHANGED <<ctx, sems, user_event_cb, p2p_mgmt_cb, iface, link_up, radio_reqs,
                 last_ntf, sink, n_device_found, cfg, env, api_call, formation_ntfs, ap_enabled, joined_sta, discovered_peers,
                 p2p_pairing_in_progress, dhcp_bound_handled, dhcp_bound_cb, workq,
                 wq_pc, target_peer, wifi_pc, btn_pc, udp_echo_stop_flag, echo_stats, rtt_log,
                 srv, cli, stop_timer>>

\* The same with a dhcp_bound_cb that does not test dhcp_bound_handled.
DeliverDhcpBound_NoHandledCheck ==
  /\ disp_pc = "idle"
  /\ dhcp_bound_cb
  /\ EnvEvent
  /\ last_ntf' = [kind |-> "IPV4_DHCP_BOUND", mac |-> NullInfo, status |-> 0]
  /\ sink' = <<>>
  /\ disp_pc' = "ret"
  /\ dhcp_bound_handled' = TRUE
  /\ workq' = Append(workq, "dhcp_bound_work")
  /\ UNCHANGED <<ctx, sems, user_event_cb, p2p_mgmt_cb, iface, link_up, radio_reqs,
                 n_device_found, cfg, env, api_call, formation_ntfs, ap_enabled, joined_sta,
                 discovered_peers, p2p_pairing_in_progress, dhcp_bound_cb, wq_pc,
                 target_peer, wifi_pc, btn_pc, udp_socket, socks, udp_echo_stop_flag,
                 echo_stats, rtt_log, srv, cli, stop_timer>>

\* net_mgmt_event_handler (net_utils.c), NET_EVENT_IPV4_DHCP_BOUND, and the
\* dhcp_bound_cb of main.c it calls.
DeliverDhcpBound ==
  /\ disp_pc = "idle"
  /\ dhcp_bound_cb
  /\ EnvEvent
  /\ last_ntf' = [kind |-> "IPV4_DHCP_BOUND", mac |-> NullInfo, status |-> 0]
  /\ sink' = <<>>
  /\ disp_pc' = "ret"
  /\ IF dhcp_bound_handled
       THEN UNCHANGED <<dhcp_bound_handled, workq>>
       ELSE /\ dhcp_bound_handled' = TRUE
            /\ workq' = k_work_submit(workq, "dhcp_bound_work")
  /\ UNCHANGED <<ctx, sems, user_event_cb, p2p_mgmt_cb, iface, link_up, radio_reqs,
                 n_device_found, cfg, env, api_call, formation_ntfs, ap_enabled, joined_sta, discovered_peers, p2p_pairing_in_progress,
                 dhcp_bound_cb, wq_pc, target_peer, wifi_pc, btn_pc, udp_socket, socks,
                 udp_echo_stop_flag, echo_stats, rtt_log, srv, cli, stop_timer>>

\* The handler returns to the event thread's loop.
DispatchReturn ==
  /\ disp_pc = "ret"
  /\ UNCHANGED env_events
  /\ disp_pc' = "idle"
  /\ last_ntf' = NoNtf
  /\ sink' = <<>>
  /\ UNCHANGED <<ctx, sems, user_event_cb, p2p_mgmt_cb, iface, link_up, radio_reqs,
                 n_device_found, cfg, env, api_call, formation_ntfs, ap_enabled, joined_sta, discovered_peers, p2p_pairing_in_progress,
                 dhcp_bound_handled, dhcp_bound_cb, workq, wq_pc, target_peer, wifi_pc,
                 btn_pc, udp_socket, socks, udp_echo_stop_flag, echo_stats, rtt_log, srv, cli,
                 stop_timer>>

\* ---------------------------------------------- main.c: start_wifi_thread
\* wifi_p2p_init without the k_sem_reset of p2p_connect_sem.
wifi_p2p_init_KeepsConnectGate ==
  /\ ctx' = CtxZero
  /\ sems' = k_sem_reset(k_sem_reset(k_sem_reset(k_sem_reset(sems,
                "p2p_find_sem"), "p2p_group_formed_sem"),
                "p2p_go_neg_request_sem"), "p2p_ap_sta_connected_sem")
  /\ link_up' = (link_up \/ iface)
  /\ p2p_mgmt_cb' = TRUE
  /\ n_device_found' = 0

\* wifi_p2p_init: the context is cleared, the gates are reset, the interface is
\* brought up, the net_mgmt callback is registered.
wifi_p2p_init ==
  /\ ctx' = CtxZero
  /\ sems' = k_sem_reset(k_sem_reset(k_sem_reset(k_sem_reset(k_sem_reset(sems,
                "p2p_find_sem"), "p2p_connect_sem"), "p2p_group_formed_sem"),
                "p2p_go_neg_request_sem"), "p2p_ap_sta_connected_sem")
  /\ link_up' = (link_up \/ iface)
  /\ p2p_mgmt_cb' = TRUE
  /\ n_device_found' = 0

\* One pass of the loop of start_wifi_thread, from a k_sem_take that succeeds
\* to the next, with wifi_ready_status as the callback left it.
start_wifi_thread(ready) ==
  IF wifi_pc = "wait_ready"
    THEN IF ready
           THEN /\ wifi_p2p_init
                /\ ap_enabled' = FALSE
                /\ joined_sta' = NullInfo
                /\ user_event_cb' = TRUE
                /\ wifi_pc' = "wait_change"
           ELSE UNCHANGED <<ctx, sems, link_up, p2p_mgmt_cb, n_device_found,
                            user_event_cb, wifi_pc, ap_enabled, joined_sta>>
    ELSE /\ wifi_pc' = "wait_ready"
         /\ UNCHANGED <<ctx, sems, link_up, p2p_mgmt_cb, n_device_found,
                        user_event_cb, ap_enabled, joined_sta>>

\* wifi_ready_cb, called by the Wi-Fi ready library once register_wifi_ready
\* has registered it (which needs an interface): wifi_ready_status is set and
\* wifi_ready_sem is given, which wakes start_wifi_thread.
wifi_ready_cb ==
  /\ Quiet
  /\ iface
  /\ EnvEvent
  /\ \E ready \in BOOLEAN : start_wifi_thread(ready)
  /\ UNCHANGED <<iface, radio_reqs, disp_pc, last_ntf, sink, cfg, env, api_call, formation_ntfs,
                 discovered_peers, p2p_pairing_in_progress, dhcp_bound_handled,
                 dhcp_bound_cb, workq, wq_pc, target_peer, btn_pc, udp_socket, socks,
                 udp_echo_stop_flag, echo_stats, rtt_log, srv, cli, stop_timer>>

\* ------------------------------------------------- main.c: button_handler
\* BUTTON_P2P_START pressed.
ButtonStart ==
  /\ Quiet
  /\ btn_pc = "idle"
  /\ EnvEvent
  /\ IF ~ctx.connected
       THEN workq' = k_work_submit(workq, "p2p_start_work")
       ELSE UNCHANGED workq
  /\ UNCHANGED <<ctx, sems, user_event_cb, p2p_mgmt_cb, iface, link_up, radio_reqs,
                 disp_pc, last_ntf, sink, n_device_found, cfg, env, api_call, formation_ntfs, ap_enabled, joined_sta, discovered_peers,
                 p2p_pairing_in_progress, dhcp_bound_handled, dhcp_bound_cb, wq_pc,
                 target_peer, wifi_pc, btn_pc, udp_socket, socks, udp_echo_stop_flag,
                 echo_stats, rtt_log, srv, cli, stop_timer>>

\* BUTTON_STOP_ECHO pressed: stop_udp_echo up to its k_sleep.
ButtonStopBegin ==
  /\ Quiet
  /\ btn_pc = "idle"
  /\ EnvEvent
  /\ StopBegin("btn")
  /\ btn_pc' = "stop_sleep"
  /\ UNCHANGED <<ctx, sems, user_event_cb, p2p_mgmt_cb, iface, link_up, radio_reqs,
                 disp_pc, last_ntf, sink, n_device_found, cfg, env, api_call, formation_ntfs, ap_enabled, joined_sta, discovered_peers,
                 p2p_pairing_in_progress, dhcp_bound_handled, dhcp_bound_cb, workq,
                 wq_pc, target_peer, wifi_pc, udp_socket, socks, echo_stats, rtt_log, srv, cli>>

\* stop_udp_echo of the button context after its k_sleep.
ButtonStopEnd ==
  /\ Quiet
  /\ btn_pc = "stop_sleep"
  /\ UNCHANGED env_events
  /\ StopEnd("btn")
  /\ btn_pc' = "idle"
  /\ UNCHANGED <<ctx, sems, user_event_cb, p2p_mgmt_cb, iface, link_up, radio_reqs,
                 disp_pc, last_ntf, sink, n_device_found, cfg, env, api_call, formation_ntfs, ap_enabled, joined_sta, discovered_peers,
                 p2p_pairing_in_progress, dhcp_bound_handled, dhcp_bound_cb, workq,
                 wq_pc, target_peer, wifi_pc, udp_echo_stop_flag, echo_stats, rtt_log, srv, cli,
                 stop_timer>>

\* ------------------------------------------------------ peer selection
\* The smallest int, at the model's word width of 16 bits.
INT_MIN == -32768
\* No peer: the NULL of target_peer, as an index into discovered_peers.
NoPeer == 0

\* The same loop taking a later entry of equal RSSI.
RECURSIVE BestFrom_LastOnTies(_, _, _, _)
BestFrom_LastOnTies(peers, i, best_idx, best_rssi) ==
  IF i > Len(peers)
    THEN best_idx
    ELSE IF peers[i].rssi >= best_rssi
           THEN BestFrom_LastOnTies(peers, i + 1, i, peers[i].rssi)
           ELSE BestFrom_LastOnTies(peers, i + 1, best_idx, best_rssi)

\* The loop of p2p_connect_handler over discovered_peers[i .. ], from the best
\* index and RSSI found so far.
RECURSIVE BestFrom(_, _, _, _)
BestFrom(peers, i, best_idx, best_rssi) ==
  IF i > Len(peers)
    THEN best_idx
    ELSE IF peers[i].rssi > best_rssi
           THEN BestFrom(peers, i + 1, i, peers[i].rssi)
           ELSE BestFrom(peers, i + 1, best_idx, best_rssi)

\* A MAC filter string is the sequence of its ':'-separated hexadecimal fields.
\* parse_mac_address: sscanf must convert six fields; each is cast to uint8_t.
ParseOk(mac_str) == Len(mac_str) >= 6
ParsedMac(mac_str) == [i \in 1..6 |-> mac_str[i] % 256]

\* The loop of wifi_p2p_find_peer_by_mac from index i.
RECURSIVE MatchFrom(_, _, _)
MatchFrom(peers, i, filter_mac) ==
  IF i > Len(peers)
    THEN NoPeer
    ELSE IF peers[i].mac = filter_mac THEN i ELSE MatchFrom(peers, i + 1, filter_mac)

wifi_p2p_find_peer_by_mac(peers, mac_filter) ==
  IF Len(peers) = 0 THEN NoPeer
  ELSE IF mac_filter = <<>> THEN 1
  ELSE IF ~ParseOk(mac_filter) THEN NoPeer
  ELSE MatchFrom(peers, 1, ParsedMac(mac_filter))

\* p2p_connect_handler: the target peer.
SelectTarget(peers, mac_filter) ==
  IF mac_filter = <<>>
    THEN BestFrom(peers, 1, NoPeer, INT_MIN)
    ELSE wifi_p2p_find_peer_by_mac(peers, mac_filter)

\* ------------------------------------------------ main.c: echo session start
\* start_udp_echo_server: udp_server_init (socket, bind), then the statistics
\* and the stop flag are reset and the server thread is created. bind fails
\* while another socket is bound to the echo port.
start_udp_echo_server ==
  \E ok \in BOOLEAN :
    IF ok /\ FreeFds(socks) # {} /\ ~(\E f \in Fds : socks[f] = "bound")
      THEN LET fd == LowestFree(socks)
           IN  /\ udp_socket' = fd
               /\ socks' = [socks EXCEPT ![fd] = "bound"]
               /\ echo_stats' = StatsZero
               /\ rtt_log' = <<>>
               /\ udp_echo_stop_flag' = FALSE
               /\ srv' = [pc |-> "start", sock |-> -1]
      ELSE UNCHANGED <<udp_socket, socks, echo_stats, rtt_log, udp_echo_stop_flag, srv>>

\* start_udp_echo_client: udp_client_init (socket, SO_RCVTIMEO, which some
\* backends refuse), then as for the server.
start_udp_echo_client ==
  \E ok \in BOOLEAN, timeo \in BOOLEAN :
    IF ok /\ FreeFds(socks) # {}
      THEN LET fd == LowestFree(socks)
           IN  /\ udp_socket' = fd
               /\ socks' = [socks EXCEPT ![fd] = IF timeo THEN "timeo" ELSE "notimeo"]
               /\ echo_stats' = StatsZero
               /\ rtt_log' = <<>>
               /\ udp_echo_stop_flag' = FALSE
               /\ cli' = [pc |-> "start", sock |-> -1, seq |-> 0, timer |-> 0]
      ELSE UNCHANGED <<udp_socket, socks, echo_stats, rtt_log, udp_echo_stop_flag, cli>>

\* ------------------------------------------ main.c: the system work queue
\* What every work queue step leaves alone.
WqFrame ==
  UNCHANGED <<user_event_cb, p2p_mgmt_cb, iface, link_up, disp_pc, last_ntf, sink,
              cfg, env, api_call, wifi_pc, btn_pc, stop_timer, env_events, ap_enabled,
              joined_sta>>
EchoFrame == UNCHANGED <<udp_socket, socks, echo_stats, rtt_log, udp_echo_stop_flag, srv, cli>>

\* p2p_start_handler without its check of p2p_pairing_in_progress.
p2p_start_handler_NoInFlightCheck ==
  /\ Quiet
  /\ wq_pc = "idle"
  /\ workq # <<>>
  /\ Head(workq) = "p2p_start_work"
  /\ workq' = Tail(workq)
  /\ discovered_peers' = <<>>
  /\ IF ~iface
       THEN /\ p2p_pairing_in_progress' = FALSE
            /\ radio_reqs' = <<>>
            /\ UNCHANGED <<ctx, n_device_found, wq_pc>>
       ELSE /\ p2p_pairing_in_progress' = TRUE
            /\ ctx' = [ctx EXCEPT !.state = "FINDING", !.peer_count = 0]
            /\ n_device_found' = 0
            /\ radio_reqs' = <<"FIND">>
            /\ wq_pc' = "find_req"
  /\ UNCHANGED <<sems, dhcp_bound_handled, dhcp_bound_cb, target_peer>>
  /\ WqFrame /\ EchoFrame /\ UNCHANGED formation_ntfs

\* p2p_start_handler from its entry to the net_mgmt request of wifi_p2p_find.
p2p_start_handler ==
  /\ Quiet
  /\ wq_pc = "idle"
  /\ workq # <<>>
  /\ Head(workq) = "p2p_start_work"
  /\ workq' = Tail(workq)
  /\ IF p2p_pairing_in_progress
       THEN UNCHANGED <<ctx, n_device_found, radio_reqs, discovered_peers,
                        p2p_pairing_in_progress, wq_pc>>
       ELSE /\ discovered_peers' = <<>>
            /\ IF ~iface
                 THEN /\ p2p_pairing_in_progress' = FALSE
                      /\ radio_reqs' = <<>>
                      /\ UNCHANGED <<ctx, n_device_found, wq_pc>>
                 ELSE /\ p2p_pairing_in_progress' = TRUE
                      /\ ctx' = [ctx EXCEPT !.state = "FINDING", !.peer_count = 0]
                      /\ n_device_found' = 0
                      /\ radio_reqs' = <<"FIND">>
                      /\ wq_pc' = "find_req"
  /\ UNCHANGED <<sems, dhcp_bound_handled, dhcp_bound_cb, target_peer>>
  /\ WqFrame /\ EchoFrame /\ UNCHANGED formation_ntfs

\* wifi_p2p_find: the request returns; on success p2p_start_handler sleeps for
\* the discovery window.
StartFindReturn ==
  /\ Quiet
  /\ wq_pc = "find_req"
  /\ \E ok \in BOOLEAN :
       IF ok
         THEN /\ wq_pc' = "disc_sleep"
              /\ UNCHANGED <<ctx, p2p_pairing_in_progress>>
         ELSE /\ ctx' = [ctx EXCEPT !.state = "ERROR"]
              /\ p2p_pairing_in_progress' = FALSE
              /\ wq_pc' = "idle"
  /\ UNCHANGED <<sems, n_device_found, radio_reqs, discovered_peers,
                 dhcp_bound_handled, dhcp_bound_cb, workq, target_peer>>
  /\ WqFrame /\ EchoFrame /\ UNCHANGED formation_ntfs

\* wifi_p2p_get_peers: the radio subsystem writes at most max_peers of the
\* devices it has found; without an interface, or when the request fails, the
\* caller's count is left as it was.
wifi_p2p_get_peers(peers, max_peers, found, ok) ==
  IF iface /\ ok
    THEN SubSeq(found, 1, IF Len(found) < max_peers THEN Len(found) ELSE max_peers)
    ELSE peers

\* p2p_start_handler after the discovery window: wifi_p2p_get_peers (on failure
\* the count stays 0), then the connect work is submitted or the attempt ends.
StartGetPeers ==
  /\ Quiet
  /\ wq_pc = "disc_sleep"
  /\ \E found \in env.peer_lists, ok \in BOOLEAN :
       LET peers == wifi_p2p_get_peers(discovered_peers, WIFI_P2P_MAX_PEERS, found, ok)
       IN
       /\ discovered_peers' = peers
       /\ IF Len(peers) > 0 \/ ctx.state = "FOUND"
            THEN /\ workq' = k_work_submit(workq, "p2p_connect_work")
                 /\ UNCHANGED p2p_pairing_in_progress
            ELSE /\ p2p_pairing_in_progress' = FALSE
                 /\ UNCHANGED workq
  /\ radio_reqs' = Append(radio_reqs, "PEER")
  /\ wq_pc' = "idle"
  /\ UNCHANGED <<ctx, sems, n_device_found, dhcp_bound_handled, dhcp_bound_cb,
                 target_peer>>
  /\ WqFrame /\ EchoFrame /\ UNCHANGED formation_ntfs

\* p2p_connect_handler from its entry to the request of wifi_p2p_stop_find.
p2p_connect_handler ==
  /\ Quiet
  /\ wq_pc = "idle"
  /\ workq # <<>>
  /\ Head(workq) = "p2p_connect_work"
  /\ workq' = Tail(workq)
  /\ IF Len(discovered_peers) = 0
       THEN /\ p2p_pairing_in_progress' = FALSE
            /\ UNCHANGED <<radio_reqs, wq_pc>>
       ELSE /\ radio_reqs' = IF iface THEN Append(radio_reqs, "STOP_FIND") ELSE radio_reqs
            /\ wq_pc' = "stop_req"
            /\ UNCHANGED p2p_pairing_in_progress
  /\ UNCHANGED <<ctx, sems, n_device_found, discovered_peers, dhcp_bound_handled,
                 dhcp_bound_cb, target_peer>>
  /\ WqFrame /\ EchoFrame /\ UNCHANGED formation_ntfs

\* wifi_p2p_stop_find returns (state = IDLE on success); the handler sleeps
\* CONFIG_P2P_FIND_STOP_DELAY_MS.
ConnectStopReturn ==
  /\ Quiet
  /\ wq_pc = "stop_req"
  /\ \E ok \in BOOLEAN :
       ctx' = IF ok /\ iface THEN [ctx EXCEPT !.state = "IDLE"] ELSE ctx
  /\ wq_pc' = "stop_sleep"
  /\ UNCHANGED <<sems, n_device_found, radio_reqs, discovered_peers,
                 p2p_pairing_in_progress, dhcp_bound_handled, dhcp_bound_cb, workq,
                 target_peer>>
  /\ WqFrame /\ EchoFrame /\ UNCHANGED formation_ntfs

\* wifi_p2p_connect up to its net_mgmt request.
wifi_p2p_connect_issue(peer) ==
  IF ~iface
    THEN /\ p2p_pairing_in_progress' = FALSE
         /\ wq_pc' = "idle"
         /\ UNCHANGED <<ctx, radio_reqs, formation_ntfs>>
    ELSE /\ ctx' = [ctx EXCEPT !.go_intent = cfg.go_intent,
                               !.frequency = cfg.frequency,
                               !.state = "CONNECTING"]
         /\ radio_reqs' = Append(radio_reqs, "CONNECT")
         /\ formation_ntfs' = {}
         /\ wq_pc' = "connect_req"
         /\ UNCHANGED p2p_pairing_in_progress

\* p2p_connect_handler whose device of intent 0 does not wait before the
\* connect call.
ConnectSelect_NoNegWait ==
  /\ Quiet
  /\ wq_pc = "stop_sleep"
  /\ LET t == SelectTarget(discovered_peers, cfg.target_mac)
     IN  /\ target_peer' = t
         /\ IF t = NoPeer
              THEN /\ p2p_pairing_in_progress' = FALSE
                   /\ wq_pc' = "idle"
                   /\ UNCHANGED <<ctx, radio_reqs, formation_ntfs>>
              ELSE wifi_p2p_connect_issue(t)
  /\ UNCHANGED <<sems, n_device_found, discovered_peers, dhcp_bound_handled,
                 dhcp_bound_cb, workq>>
  /\ WqFrame /\ EchoFrame

\* p2p_connect_handler after the stop delay: the target is selected; a device
\* of intent 0 then waits CONFIG_P2P_GO_NEG_REQUEST_WAIT_MS, any other issues
\* the connect call.
ConnectSelect ==
  /\ Quiet
  /\ wq_pc = "stop_sleep"
  /\ LET t == SelectTarget(discovered_peers, cfg.target_mac)
     IN  /\ target_peer' = t
         /\ IF t = NoPeer
              THEN /\ p2p_pairing_in_progress' = FALSE
                   /\ wq_pc' = "idle"
                   /\ UNCHANGED <<ctx, radio_reqs, formation_ntfs>>
              ELSE IF cfg.go_intent = 0
                     THEN /\ wq_pc' = "neg_wait"
                          /\ UNCHANGED <<ctx, radio_reqs, p2p_pairing_in_progress,
                                         formation_ntfs>>
                     ELSE wifi_p2p_connect_issue(t)
  /\ UNCHANGED <<sems, n_device_found, discovered_peers, dhcp_bound_handled,
                 dhcp_bound_cb, workq>>
  /\ WqFrame /\ EchoFrame

\* The negotiation-request delay is over: the connect call is issued.
ConnectAfterNegWait ==
  /\ Quiet
  /\ wq_pc = "neg_wait"
  /\ wifi_p2p_connect_issue(target_peer)
  /\ UNCHANGED <<sems, n_device_found, discovered_peers, dhcp_bound_handled,
                 dhcp_bound_cb, workq, target_peer>>
  /\ WqFrame /\ EchoFrame

\* wifi_p2p_connect after its request: the role that the intent determines.
RoleByIntent(c, go_intent) ==
  IF go_intent = 15 THEN [c EXCEPT !.role = "GO"]
  ELSE IF go_intent = 0 THEN [c EXCEPT !.role = "CLI"]
  ELSE c

\* p2p_connect_handler whose return after a failed connect call leaves
\* p2p_pairing_in_progress set.
ConnectReturn_KeepsFlag ==
  /\ Quiet
  /\ wq_pc = "connect_req"
  /\ \E ok \in BOOLEAN :
       IF ok
         THEN /\ ctx' = RoleByIntent(ctx, cfg.go_intent)
              /\ wq_pc' = "wait_group"
         ELSE /\ ctx' = [ctx EXCEPT !.state = "ERROR"]
              /\ wq_pc' = "idle"
  /\ UNCHANGED <<sems, n_device_found, radio_reqs, discovered_peers,
                 p2p_pairing_in_progress, dhcp_bound_handled, dhcp_bound_cb, workq,
                 target_peer>>
  /\ WqFrame /\ EchoFrame /\ UNCHANGED formation_ntfs

\* wifi_p2p_connect returns; on success the handler starts to wait for the
\* group-formed gate.
ConnectReturn ==
  /\ Quiet
  /\ wq_pc = "connect_req"
  /\ \E ok \in BOOLEAN :
       IF ok
         THEN /\ ctx' = RoleByIntent(ctx, cfg.go_intent)
              /\ wq_pc' = "wait_group"
              /\ UNCHANGED p2p_pairing_in_progress
         ELSE /\ ctx' = [ctx EXCEPT !.state = "ERROR"]
              /\ p2p_pairing_in_progress' = FALSE
              /\ wq_pc' = "idle"
  /\ UNCHANGED <<sems, n_device_found, radio_reqs, discovered_peers,
                 dhcp_bound_handled, dhcp_bound_cb, workq, target_peer>>
  /\ WqFrame /\ EchoFrame /\ UNCHANGED formation_ntfs

\* wifi_p2p_wait_for_group_formation that does not read the state after the
\* gate was taken.
wifi_p2p_wait_for_group_formation_IgnoresError(s, c, timeout_ms) ==
  IF k_sem_take_ret(s, "p2p_group_formed_sem", timeout_ms) = -EAGAIN THEN -ETIMEDOUT
  ELSE 0

\* wifi_p2p_wait_for_group_formation that ignores what k_sem_take returns.
wifi_p2p_wait_for_group_formation_IgnoresTimeout(s, c, timeout_ms) ==
  IF c.state = "ERROR" THEN -EIO ELSE 0

\* wifi_p2p_wait_for_group_formation: the value returned, from the gate as the
\* k_sem_take finds it when the wait ends and the state read after it.
wifi_p2p_wait_for_group_formation(s, c, timeout_ms) ==
  IF k_sem_take_ret(s, "p2p_group_formed_sem", timeout_ms) = -EAGAIN THEN -ETIMEDOUT
  ELSE IF c.state = "ERROR" THEN -EIO
  ELSE 0

\* wifi_p2p_wait_for_peer, likewise.
wifi_p2p_wait_for_peer(s, timeout_ms) ==
  IF k_sem_take_ret(s, "p2p_find_sem", timeout_ms) = -EAGAIN THEN -ETIMEDOUT ELSE 0

\* wifi_p2p_wait_for_connection, likewise.
wifi_p2p_wait_for_connection(s, c, timeout_ms) ==
  IF k_sem_take_ret(s, "p2p_connect_sem", timeout_ms) = -EAGAIN THEN -ETIMEDOUT
  ELSE IF c.state = "ERROR" THEN -EIO
  ELSE 0

\* wifi_p2p_wait_for_ap_sta_connected, likewise.
wifi_p2p_wait_for_ap_sta_connected(s, timeout_ms) ==
  IF k_sem_take_ret(s, "p2p_ap_sta_connected_sem", timeout_ms) = -EAGAIN
    THEN -ETIMEDOUT
    ELSE 0

\* p2p_connect_handler, non-coordinator branch after the optional delay: the
\* bound callback is set and registered, net_dhcpv4_start is called, and the
\* in-flight flag is cleared.
ClientBranch ==
  /\ dhcp_bound_handled' = FALSE
  /\ dhcp_bound_cb' = TRUE
  /\ radio_reqs' = Append(radio_reqs, "DHCP_START")
  /\ p2p_pairing_in_progress' = FALSE
  /\ wq_pc' = "idle"

\* p2p_connect_handler: the wait for group formation ends, by the gate or by
\* its timeout, and the handler branches on the role.
ConnectGroupWait ==
  /\ Quiet
  /\ wq_pc = "wait_group"
  /\ sems' = k_sem_take(sems, "p2p_group_formed_sem")
  /\ IF wifi_p2p_wait_for_group_formation(sems, ctx, TIMEOUT_MS) < 0
       THEN /\ p2p_pairing_in_progress' = FALSE
            /\ wq_pc' = "idle"
            /\ UNCHANGED <<dhcp_bound_handled, dhcp_bound_cb, radio_reqs>>
       ELSE IF ctx.role = "GO"
         THEN /\ wq_pc' = "wait_ap_sta"
              /\ UNCHANGED <<p2p_pairing_in_progress, dhcp_bound_handled,
                             dhcp_bound_cb, radio_reqs>>
       ELSE IF ctx.role = "CLI"
         THEN /\ wq_pc' = "dhcp_start_delay"
              /\ UNCHANGED <<p2p_pairing_in_progress, dhcp_bound_handled,
                             dhcp_bound_cb, radio_reqs>>
         ELSE /\ p2p_pairing_in_progress' = FALSE
              /\ wq_pc' = "idle"
              /\ UNCHANGED <<dhcp_bound_handled, dhcp_bound_cb, radio_reqs>>
  /\ UNCHANGED <<ctx, n_device_found, discovered_peers, workq, target_peer>>
  /\ WqFrame /\ EchoFrame /\ UNCHANGED formation_ntfs

\* Non-coordinator branch: k_sleep(CONFIG_P2P_DHCP_START_DELAY_MS) is over. In
\* a build with CONFIG_P2P_DHCP_START_DELAY_MS == 0 the sleep is compiled out
\* and this step follows ConnectGroupWait with nothing in between.
ConnectDhcpStart ==
  /\ Quiet
  /\ wq_pc = "dhcp_start_delay"
  /\ ClientBranch
  /\ UNCHANGED <<ctx, sems, n_device_found, discovered_peers, workq, target_peer>>
  /\ WqFrame /\ EchoFrame /\ UNCHANGED formation_ntfs

\* Coordinator branch in which a wait for AP-STA-CONNECTED that times out ends
\* the attempt.
ConnectApStaWait_TimeoutFatal ==
  /\ Quiet
  /\ wq_pc = "wait_ap_sta"
  /\ sems' = k_sem_take(sems, "p2p_ap_sta_connected_sem")
  /\ IF wifi_p2p_wait_for_ap_sta_connected(sems, TIMEOUT_MS) < 0
       THEN /\ p2p_pairing_in_progress' = FALSE
            /\ wq_pc' = "idle"
       ELSE /\ wq_pc' = "hs_sleep"
            /\ UNCHANGED p2p_pairing_in_progress
  /\ UNCHANGED <<ctx, n_device_found, radio_reqs, discovered_peers,
                 dhcp_bound_handled, dhcp_bound_cb, workq, target_peer>>
  /\ WqFrame /\ EchoFrame /\ UNCHANGED formation_ntfs

\* Coordinator branch: the wait for AP-STA-CONNECTED ends (a timeout is only
\* logged); the handler sleeps CONFIG_P2P_4WAY_HANDSHAKE_WAIT_MS.
ConnectApStaWait ==
  /\ Quiet
  /\ wq_pc = "wait_ap_sta"
  /\ sems' = k_sem_take(sems, "p2p_ap_sta_connected_sem")
  /\ wq_pc' = "hs_sleep"
  /\ UNCHANGED <<ctx, n_device_found, radio_reqs, discovered_peers,
                 p2p_pairing_in_progress, dhcp_bound_handled, dhcp_bound_cb, workq,
                 target_peer>>
  /\ WqFrame /\ EchoFrame /\ UNCHANGED formation_ntfs

\* Coordinator branch after the handshake delay: setup_go_network, which ends
\* by starting the echo server; then the in-flight flag is cleared.
ConnectGoSetup ==
  /\ Quiet
  /\ wq_pc = "hs_sleep"
  /\ radio_reqs' = Append(radio_reqs, "GO_SETUP")
  /\ start_udp_echo_server
  /\ p2p_pairing_in_progress' = FALSE
  /\ wq_pc' = "idle"
  /\ UNCHANGED <<ctx, sems, n_device_found, discovered_peers, dhcp_bound_handled,
                 dhcp_bound_cb, workq, target_peer, cli>>
  /\ WqFrame /\ UNCHANGED formation_ntfs

\* dhcp_bound_handler up to its k_sleep(CONFIG_P2P_CLIENT_CONNECT_DELAY_MS).
dhcp_bound_handler ==
  /\ Quiet
  /\ wq_pc = "idle"
  /\ workq # <<>>
  /\ Head(workq) = "dhcp_bound_work"
  /\ workq' = Tail(workq)
  /\ wq_pc' = "dhcp_sleep"
  /\ UNCHANGED <<ctx, sems, n_device_found, radio_reqs, discovered_peers,
                 p2p_pairing_in_progress, dhcp_bound_handled, dhcp_bound_cb,
                 target_peer>>
  /\ WqFrame /\ EchoFrame /\ UNCHANGED formation_ntfs

\* dhcp_bound_handler after the delay: the echo client is started.
DhcpStartClient ==
  /\ Quiet
  /\ wq_pc = "dhcp_sleep"
  /\ start_udp_echo_client
  /\ wq_pc' = "idle"
  /\ UNCHANGED <<ctx, sems, n_device_found, radio_reqs, discovered_peers,
                 p2p_pairing_in_progress, dhcp_bound_handled, dhcp_bound_cb, workq,
                 target_peer, srv>>
  /\ WqFrame /\ UNCHANGED formation_ntfs

\* ------------------------------------------------- udp_utils.c: echo loops
ThreadFrame ==
  UNCHANGED <<ctx, sems, user_event_cb, p2p_mgmt_cb, iface, link_up, radio_reqs,
              disp_pc, last_ntf, sink, n_device_found, cfg, env, api_call, formation_ntfs, ap_enabled, joined_sta, discovered_peers,
              p2p_pairing_in_progress, dhcp_bound_handled, dhcp_bound_cb, workq,
              wq_pc, target_peer, wifi_pc, btn_pc, udp_socket, socks,
              udp_echo_stop_flag, stop_timer, env_events>>

\* udp_echo_client_run at the head of its loop, entered when the thread first
\* runs (udp_echo_client_thread_fn then reads udp_socket) or when
\* k_msleep(interval_ms) is over: the stop flag and the count are checked and
\* the packet is sent (udp_echo_ping / udp_send). A failed send is the error
\* branch: the sequence number is incremented and the loop sleeps.
ClientLoop ==
  /\ Quiet
  /\ cli.pc \in {"start", "loop"}
  /\ LET sock == IF cli.pc = "start" THEN udp_socket ELSE cli.sock
     IN  IF udp_echo_stop_flag \/ (cfg.count > 0 /\ cli.seq >= cfg.count)
           THEN cli' = [cli EXCEPT !.pc = "done", !.sock = sock]
           ELSE /\ cli.seq < MaxSeq
                /\ \E sent \in BOOLEAN :
                     IF sent /\ IsOpen(socks, sock)
                       THEN cli' = [cli EXCEPT !.pc = "recv", !.sock = sock,
                                               !.timer = UDP_RECV_TIMEOUT_TICKS]
                       ELSE cli' = [cli EXCEPT !.pc = "loop", !.sock = sock,
                                               !.seq = @ + 1]
  /\ UNCHANGED <<echo_stats, rtt_log, srv>>
  /\ ThreadFrame

\* udp_echo_ping / udp_receive returns: a reply, the receive timeout, or an
\* error; the statistics are updated and the loop sleeps for the interval.
ClientRecv ==
  /\ Quiet
  /\ cli.pc = "recv"
  /\ \E outcome \in {"reply", "timeout", "error"} :
       CASE outcome = "reply" ->
              /\ IsOpen(socks, cli.sock)
              /\ \E rtt \in env.rtts :
                   /\ echo_stats' = ClientOnReply(echo_stats, PacketSize, rtt)
                   /\ rtt_log' = Append(rtt_log, rtt)
         [] outcome = "timeout" ->
              /\ IsOpen(socks, cli.sock)
              /\ socks[cli.sock] = "timeo"
              /\ cli.timer = 0
              /\ echo_stats' = ClientOnTimeout(echo_stats)
              /\ UNCHANGED rtt_log
         [] outcome = "error" ->
              UNCHANGED <<echo_stats, rtt_log>>
  /\ cli' = [cli EXCEPT !.pc = "loop", !.seq = @ + 1, !.timer = 0]
  /\ UNCHANGED srv
  /\ ThreadFrame

\* udp_echo_server_thread_fn when the thread first runs: udp_socket is read,
\* the stop flag is checked and zsock_recvfrom is called.
ServerLoop ==
  /\ Quiet
  /\ srv.pc = "start"
  /\ srv' = [pc |-> IF udp_echo_stop_flag THEN "done" ELSE "recv", sock |-> udp_socket]
  /\ UNCHANGED <<echo_stats, rtt_log, cli>>
  /\ ThreadFrame

\* The server loop with a receive error that ends the loop.
ServerRecv_ErrorEndsLoop ==
  /\ Quiet
  /\ srv.pc = "recv"
  /\ \E outcome \in {"echoed", "send_failed", "error"} :
       CASE outcome = "echoed" ->
              /\ IsOpen(socks, srv.sock)
              /\ echo_stats.packets_received < MaxSeq
              /\ UNCHANGED rtt_log
              /\ echo_stats' =
                   ServerOnSent(ServerOnReceive(echo_stats, PacketSize), PacketSize)
              /\ srv' = [srv EXCEPT !.pc = IF udp_echo_stop_flag THEN "done" ELSE "recv"]
         [] outcome = "send_failed" ->
              /\ IsOpen(socks, srv.sock)
              /\ echo_stats.packets_received < MaxSeq
              /\ UNCHANGED rtt_log
              /\ echo_stats' = ServerOnReceive(echo_stats, PacketSize)
              /\ srv' = [srv EXCEPT !.pc = IF udp_echo_stop_flag THEN "done" ELSE "recv"]
         [] outcome = "error" ->
              /\ UNCHANGED <<echo_stats, rtt_log>>
              /\ srv' = [srv EXCEPT !.pc = "done"]
  /\ UNCHANGED cli
  /\ ThreadFrame

\* zsock_recvfrom returns: a datagram, which is counted and echoed (the echo
\* is counted when zsock_sendto succeeds), or an error or an empty read (on a
\* closed handle it fails at once). Then the stop flag is checked and
\* zsock_recvfrom is called again.
ServerRecv ==
  /\ Quiet
  /\ srv.pc = "recv"
  /\ \E outcome \in {"echoed", "send_failed", "error"} :
       CASE outcome = "echoed" ->
              /\ IsOpen(socks, srv.sock)
              /\ echo_stats.packets_received < MaxSeq
              /\ UNCHANGED rtt_log
              /\ echo_stats' =
                   ServerOnSent(ServerOnReceive(echo_stats, PacketSize), PacketSize)
         [] outcome = "send_failed" ->
              /\ IsOpen(socks, srv.sock)
              /\ echo_stats.packets_received < MaxSeq
              /\ UNCHANGED rtt_log
              /\ echo_stats' = ServerOnReceive(echo_stats, PacketSize)
         [] outcome = "error" ->
              UNCHANGED <<echo_stats, rtt_log>>
  /\ srv' = [srv EXCEPT !.pc = IF udp_echo_stop_flag THEN "done" ELSE "recv"]
  /\ UNCHANGED cli
  /\ ThreadFrame

\* ------------------------------------------------------------------- time
\* The running timers: the grace sleeps of stop_udp_echo and the client's
\* receive timeout.
StopSleeping(k) == IF k = "disp" THEN disp_pc = "stop_sleep" ELSE btn_pc = "stop_sleep"
RecvTimed == cli.pc = "recv" /\ IsOpen(socks, cli.sock) /\ socks[cli.sock] = "timeo"

\* One tick of 500 ms passes; a timer that has run out fires first, and a
\* thread that was created runs first.
Tick ==
  /\ Quiet
  /\ srv.pc # "start"
  /\ cli.pc # "start"
  /\ RecvTimed \/ \E k \in {"disp", "btn"} : StopSleeping(k)
  /\ RecvTimed => cli.timer > 0
  /\ \A k \in {"disp", "btn"} : StopSleeping(k) => stop_timer[k] > 0
  /\ cli' = IF RecvTimed THEN [cli EXCEPT !.timer = @ - 1] ELSE cli
  /\ stop_timer' = [k \in {"disp", "btn"} |->
                      IF StopSleeping(k) THEN stop_timer[k] - 1 ELSE stop_timer[k]]
  /\ UNCHANGED <<ctx, sems, user_event_cb, p2p_mgmt_cb, iface, link_up, radio_reqs,
                 disp_pc, last_ntf, sink, n_device_found, cfg, env, api_call, formation_ntfs, ap_enabled, joined_sta, discovered_peers,
                 p2p_pairing_in_progress, dhcp_bound_handled, dhcp_bound_cb, workq,
                 wq_pc, target_peer, wifi_pc, btn_pc, udp_socket, socks,
                 udp_echo_stop_flag, echo_stats, rtt_log, srv, env_events>>

\* ---------------------------------------------------------- specification
\* Devices in range as wifi_p2p_get_peers reports them.
PeerA == [mac |-> MacA, rssi |-> -70]
PeerB == [mac |-> MacB, rssi |-> -40]
PeerC == [mac |-> MacC, rssi |-> -55]
PeerD == [mac |-> MacD, rssi |-> -60]

\* The static initial values of main.c, wifi_p2p_utils.c and net_utils.c.
InitProgram ==
  /\ ctx = CtxZero
  /\ sems = [g \in GateNames |-> SemZero]
  /\ user_event_cb = FALSE
  /\ p2p_mgmt_cb = FALSE
  /\ link_up = FALSE
  /\ radio_reqs = <<>>
  /\ disp_pc = "idle"
  /\ last_ntf = NoNtf
  /\ sink = <<>>
  /\ n_device_found = 0
  /\ discovered_peers = <<>>
  /\ p2p_pairing_in_progress = FALSE
  /\ dhcp_bound_handled = FALSE
  /\ dhcp_bound_cb = FALSE
  /\ workq = <<>>
  /\ wq_pc = "idle"
  /\ target_peer = NoPeer
  /\ wifi_pc = "wait_ready"
  /\ btn_pc = "idle"
  /\ udp_socket = -1
  /\ socks = [f \in Fds |-> "closed"]
  /\ udp_echo_stop_flag = FALSE
  /\ echo_stats = [StatsZero EXCEPT !.rtt_min_us = 0]
  /\ rtt_log = <<>>
  /\ srv = [pc |-> "none", sock |-> -1]
  /\ cli = [pc |-> "none", sock |-> -1, seq |-> 0, timer |-> 0]
  /\ stop_timer = [k \in {"disp", "btn"} |-> 0]
  /\ env_events = 0
  /\ formation_ntfs = {}
  /\ ap_enabled = FALSE
  /\ joined_sta = NullInfo
  /\ api_call = NoCall

Init ==
  /\ InitProgram
  /\ iface \in BOOLEAN
  /\ cfg \in [go_intent : {0, 7, 15}, frequency : {2412}, target_mac : {<<>>, MacB},
              count : {MaxSeq}]
  /\ env = [peer_lists |-> {<<>>, <<PeerA>>, <<PeerA, PeerB, PeerC, PeerD>>}, rtts |-> {1000}]

Next ==
  \/ DeliverNotification
  \/ EventThreadStopEnd
  \/ DeliverDhcpBound
  \/ DispatchReturn
  \/ wifi_ready_cb
  \/ ButtonStart
  \/ ButtonStopBegin
  \/ ButtonStopEnd
  \/ p2p_start_handler
  \/ StartFindReturn
  \/ StartGetPeers
  \/ p2p_connect_handler
  \/ ConnectStopReturn
  \/ ConnectSelect
  \/ ConnectAfterNegWait
  \/ ConnectReturn
  \/ ConnectGroupWait
  \/ ConnectDhcpStart
  \/ ConnectApStaWait
  \/ ConnectGoSetup
  \/ dhcp_bound_handler
  \/ DhcpStartClient
  \/ ClientLoop
  \/ ClientRecv
  \/ ServerLoop
  \/ ServerRecv
  \/ Tick

Spec == Init /\ [][Next]_vars

\* The system work queue thread: one step of the handler it is running.
WorkQueueStep ==
  \/ p2p_start_handler
  \/ StartFindReturn
  \/ StartGetPeers
  \/ p2p_connect_handler
  \/ ConnectStopReturn
  \/ ConnectSelect
  \/ ConnectAfterNegWait
  \/ ConnectReturn
  \/ ConnectGroupWait
  \/ ConnectDhcpStart
  \/ ConnectApStaWait
  \/ ConnectGoSetup
  \/ dhcp_bound_handler
  \/ DhcpStartClient

\* The work queue thread and the event thread are scheduled: a request, a
\* k_sleep and a k_sem_take with a timeout all end, and a handler returns.
FairSpec == Spec /\ WF_vars(WorkQueueStep) /\ WF_vars(DispatchReturn)

\* ------------------------------------------------------------------ claims
\* The step in which the event thread handles a connect-result failure.
ConnectFailureStep ==
  /\ disp_pc = "idle"
  /\ disp_pc' = "ret"
  /\ last_ntf'.kind = "CONNECT_RESULT"
  /\ last_ntf'.status # 0

\* C1: a connect-result failure delivered while state == CONNECTING changes no
\* field of the context, gives neither p2p_connect_sem nor p2p_group_formed_sem
\* (nor any other gate), and forwards nothing to the user callback.
C1_FailureWhileConnectingIgnored ==
  [][(ConnectFailureStep /\ ctx.state = "CONNECTING")
       => (ctx' = ctx /\ sems' = sems /\ sink' = <<>>)]_vars

\* C1 witness: a connect-result failure has just been handled and the state
\* is still CONNECTING.
C1_Witness ==
  /\ disp_pc = "ret"
  /\ last_ntf.kind = "CONNECT_RESULT"
  /\ last_ntf.status # 0
  /\ ctx.state = "CONNECTING"
  /\ wq_pc = "wait_group"

\* C2: a connect-result failure delivered in any state other than CONNECTING
\* sets state = ERROR, forwards exactly CONNECT_FAILED (with the context as
\* updated), gives p2p_connect_sem and p2p_group_formed_sem, and changes nothing
\* else of the context; wifi_p2p_wait_for_group_formation then returns -EIO.
C2_FailureElsewhereIsFatal ==
  [][(ConnectFailureStep /\ ctx.state # "CONNECTING")
       => /\ ctx' = [ctx EXCEPT !.state = "ERROR"]
          /\ Len(sink') = 1
          /\ sink'[1].ev = "CONNECT_FAILED"
          /\ sink'[1].state = "ERROR"
          /\ sems'["p2p_connect_sem"].count = 1
          /\ sems'["p2p_group_formed_sem"].count = 1
          /\ wifi_p2p_wait_for_group_formation(sems', ctx', TIMEOUT_MS) = -EIO]_vars

\* C2 witness: a connect-result failure has just been made fatal while
\* p2p_connect_handler is blocked in wifi_p2p_wait_for_group_formation.
C2_Witness ==
  /\ disp_pc = "ret"
  /\ last_ntf.kind = "CONNECT_RESULT"
  /\ last_ntf.status # 0
  /\ ctx.state = "ERROR"
  /\ wq_pc = "wait_group"
  /\ wifi_p2p_wait_for_group_formation(sems, ctx, TIMEOUT_MS) = -EIO

\* C3: in every reachable state the role is other than UNDETERMINED only when
\* the state is CONNECTED or GROUP_FORMED.
C3_RoleOnlyWhenConnected ==
  ctx.role # "UNDETERMINED" => ctx.state \in {"CONNECTED", "GROUP_FORMED"}

\* C4: whenever p2p_pairing_in_progress is set it is eventually cleared, the
\* work queue thread being scheduled and every wait of it being bounded.
C4_InFlightEventuallyCleared ==
  p2p_pairing_in_progress ~> ~p2p_pairing_in_progress

\* C4 witness: an attempt has run through the whole coordinator branch and the
\* flag is clear again.
C4_Witness ==
  /\ ~p2p_pairing_in_progress
  /\ wq_pc = "idle"
  /\ radio_reqs # <<>>
  /\ radio_reqs[Len(radio_reqs)] = "GO_SETUP"

\* The positions of the work queue thread inside p2p_start_handler and inside
\* p2p_connect_handler.
StartPcs == {"find_req", "disc_sleep"}
ConnectPcs ==
  {"stop_req", "stop_sleep", "neg_wait", "connect_req", "wait_group", "wait_ap_sta",
   "hs_sleep", "dhcp_start_delay"}

\* The step in which the work queue thread takes p2p_start_work while
\* p2p_pairing_in_progress is set.
StartWhileInFlightStep ==
  /\ wq_pc = "idle"
  /\ workq # <<>>
  /\ Head(workq) = "p2p_start_work"
  /\ workq' = Tail(workq)
  /\ p2p_pairing_in_progress

\* C5: a start trigger processed while p2p_pairing_in_progress is set starts no
\* discovery (no request, the thread stays outside the handlers), leaves the
\* discovered peers, the context and the flag as they are; and the thread is
\* inside the start or the connect sequence only with the flag set, so that no
\* second sequence begins beside it.
C5_OneAttemptAtATime ==
  [][/\ StartWhileInFlightStep
          => /\ wq_pc' = "idle"
             /\ UNCHANGED <<ctx, sems, discovered_peers, radio_reqs,
                            p2p_pairing_in_progress, n_device_found>>
     /\ (wq_pc' \in StartPcs \cup ConnectPcs) => p2p_pairing_in_progress']_vars

\* C5 witness: p2p_start_work is at the head of the queue while an attempt is
\* in flight and its connect work is still pending behind it.
C5_Witness ==
  /\ p2p_pairing_in_progress
  /\ wq_pc = "idle"
  /\ workq = <<"p2p_start_work", "p2p_connect_work">>
  /\ ctx.state = "FOUND"
  /\ Len(discovered_peers) > 0

\* An echo loop that has not yet seen the stop flag: it is inside, or about to
\* issue, a send or a receive on its socket.
ServerInLoop == srv.pc = "recv"
ClientInLoop == cli.pc \in {"loop", "recv"}

\* C6: there is no reachable state in which, the stop flag being set, the
\* socket is closed while the server loop or the client loop has not yet seen
\* the flag and is still inside (or about to issue) a send or a receive on it.
C6_NoCloseUnderLoop ==
  udp_echo_stop_flag
    => /\ ServerInLoop => IsOpen(socks, srv.sock)
       /\ ClientInLoop => IsOpen(socks, cli.sock)

\* The value each of the four waits, called with a positive timeout, returns
\* when it ends in the current state.
WaitResult(g) ==
  CASE g = "p2p_find_sem"             -> wifi_p2p_wait_for_peer(sems, TIMEOUT_MS)
    [] g = "p2p_connect_sem"          -> wifi_p2p_wait_for_connection(sems, ctx, TIMEOUT_MS)
    [] g = "p2p_group_formed_sem"     -> wifi_p2p_wait_for_group_formation(sems, ctx, TIMEOUT_MS)
    [] g = "p2p_ap_sta_connected_sem" -> wifi_p2p_wait_for_ap_sta_connected(sems, TIMEOUT_MS)

SessionRunning == ServerInLoop \/ ClientInLoop

\* The step in which the event thread is handed a link-disconnect
\* notification, or a station-disconnected notification for the tracked peer.
DisconnectStep ==
  /\ disp_pc = "idle"
  /\ disp_pc' # "idle"
  /\ \/ last_ntf'.kind = "DISCONNECT_RESULT"
     \/ last_ntf'.kind = "AP_STA_DISCONNECTED" /\ last_ntf'.mac = ctx.peer_mac

\* C9: once the peer has left or the link has disconnected after a connection,
\* with an echo session running, the stop flag is set.
C9_DisconnectStopsEcho ==
  [][(DisconnectStep /\ ctx.group_formed /\ SessionRunning)
       => udp_echo_stop_flag']_vars

\* C10 as stated: once the server loop or the client loop has exited,
\* packets_sent = packets_received + packets_lost.
C10_StatsBalanceAtExit ==
  (srv.pc = "done" \/ cli.pc = "done")
    => echo_stats.packets_sent = echo_stats.packets_received + echo_stats.packets_lost

\* C10 as the loops keep it: once the client loop has exited, on a device that
\* ran no server session, packets_sent = packets_received + packets_lost; once
\* the server loop has exited, on a device that ran no client session,
\* packets_lost = 0 and packets_sent <= packets_received, a datagram whose echo
\* could not be sent being counted as received only.
C10_StatsBalanceAtClientExit ==
  /\ (cli.pc = "done" /\ srv.pc = "none")
       => echo_stats.packets_sent
            = echo_stats.packets_received + echo_stats.packets_lost
  /\ (srv.pc = "done" /\ cli.pc = "none")
       => /\ echo_stats.packets_lost = 0
          /\ echo_stats.packets_sent <= echo_stats.packets_received

\* C10 witness: a client session has ended after one reply and one timeout.
C10_Witness ==
  /\ cli.pc = "done"
  /\ srv.pc = "none"
  /\ echo_stats.packets_received = 1
  /\ echo_stats.packets_lost = 1
  /\ echo_stats.packets_sent = 2

\* C11: once the client loop has exited with the stop flag not set, it has run
\* exactly count iterations and packets_received + packets_lost = count.
C11_ClientCountsEveryPacket ==
  (cli.pc = "done" /\ srv.pc = "none" /\ ~udp_echo_stop_flag /\ cfg.count > 0)
    => /\ cli.seq = cfg.count
       /\ echo_stats.packets_received + echo_stats.packets_lost = cfg.count

\* ------------------------------------------------- repeated echo sessions
\* A state Spec reaches (TLC reaches it with the MaxEvents events of Spec): a
\* connect-result failure was handled before the attempt and left both
\* connect gates given, BUTTON_P2P_START started an attempt with intent 0 whose
\* wait for group formation took the stale gate, the address-bound
\* notification was handled, and dhcp_bound_handler has just created the echo
\* client thread.
FirstSessionStarted ==
  /\ iface = TRUE /\ link_up = TRUE /\ user_event_cb = TRUE
  /\ p2p_mgmt_cb = TRUE /\ dhcp_bound_cb = TRUE
  /\ cfg = [go_intent |-> 0, frequency |-> 2412, target_mac |-> <<>>, count |-> MaxSeq]
  /\ env = [peer_lists |-> {<<>>, <<PeerA>>, <<PeerA, PeerB, PeerC, PeerD>>}, rtts |-> {1000}]
  /\ ctx = [CtxZero EXCEPT !.state = "CONNECTING", !.role = "CLI",
                           !.frequency = 2412]
  /\ sems = [g \in GateNames |->
               IF g = "p2p_connect_sem" THEN [count |-> 1, given |-> TRUE]
               ELSE IF g = "p2p_group_formed_sem" THEN [count |-> 0, given |-> TRUE]
               ELSE SemZero]
  /\ radio_reqs = <<"FIND", "PEER", "STOP_FIND", "CONNECT", "DHCP_START">>
  /\ disp_pc = "idle" /\ last_ntf = NoNtf /\ sink = <<>>
  /\ n_device_found = 0
  /\ discovered_peers = <<PeerA>>
  /\ target_peer = 1
  /\ p2p_pairing_in_progress = FALSE
  /\ dhcp_bound_handled = TRUE
  /\ workq = <<>> /\ wq_pc = "idle"
  /\ wifi_pc = "wait_change" /\ btn_pc = "idle"
  /\ udp_socket = 0
  /\ socks \in {[f \in Fds |-> IF f = 0 THEN t ELSE "closed"] : t \in {"timeo", "notimeo"}}
  /\ udp_echo_stop_flag = FALSE
  /\ echo_stats = StatsZero
  /\ rtt_log = <<>>
  /\ srv = [pc |-> "none", sock |-> -1]
  /\ cli = [pc |-> "start", sock |-> -1, seq |-> 0, timer |-> 0]
  /\ stop_timer = [k \in {"disp", "btn"} |-> 0]
  /\ formation_ntfs = {}
  /\ ap_enabled = FALSE
  /\ joined_sta = NullInfo
  /\ api_call = NoCall

\* The program continues from there, the surroundings producing MaxEvents - 1
\* further events.
InitRepeat == FirstSessionStarted /\ env_events = 1

RepeatSpec == InitRepeat /\ [][Next]_vars

\* C12: a socket handle is open exactly as long as udp_socket holds it: the
\* handle udp_socket holds is open, so that stop_udp_echo closes no handle a
\* second time, and no other handle is open, so that no session's socket is
\* overwritten by a later session without having been closed.
C12_SocketClosedExactlyOnce ==
  \A f \in Fds : IsOpen(socks, f) <=> udp_socket = f

\* The step in which start_udp_echo_server or start_udp_echo_client stores a
\* new handle in udp_socket and creates its thread.
SessionStartStep == udp_socket' >= 0 /\ udp_socket' # udp_socket

\* C13: an echo session is started only while no echo loop is running, so that
\* a server loop and a client loop, or two loops of one kind, never run at the
\* same time.
C13_OneEchoLoopAtATime ==
  [][SessionStartStep => ~(ServerInLoop \/ ClientInLoop)]_vars

\* ---- peer selection on every peer list
\* Signal strengths and entries that wifi_p2p_get_peers can report, and the
\* lists of at most WIFI_P2P_MAX_PEERS entries with distinct addresses.
SelRssi == {-70, -55, -40}
SelPeers == [mac : {MacA, MacB, MacC}, rssi : SelRssi]
SelPeerLists ==
  {l \in UNION {[1..n -> SelPeers] : n \in 1..WIFI_P2P_MAX_PEERS} :
     \A i, j \in DOMAIN l : i # j => l[i].mac # l[j].mac}

\* Values of CONFIG_P2P_TARGET_PEER_MAC: none, the address of a device, an
\* address no reported device has, two fields only, a seventh field, a field
\* that does not fit a byte.
SelFilters ==
  {<<>>, MacB, MacD, <<2, 0>>, MacB \o <<153>>, <<258, 0, 0, 0, 0, 2>>}

\* p2p_connect_handler in its sleep after wifi_p2p_stop_find, the button having
\* been pressed once, with any peer list that discovery can have stored.
InitSelect ==
  /\ iface = TRUE
  /\ link_up = FALSE
  /\ user_event_cb = FALSE
  /\ p2p_mgmt_cb = FALSE
  /\ dhcp_bound_cb = FALSE
  /\ cfg \in [go_intent : {0, 7, 15}, frequency : {2412}, target_mac : SelFilters,
              count : {MaxSeq}]
  /\ env = [peer_lists |-> {<<>>, <<PeerA>>, <<PeerA, PeerB, PeerC, PeerD>>}, rtts |-> {1000}]
  /\ ctx = [CtxZero EXCEPT !.state = "FINDING"]
  /\ sems = [g \in GateNames |-> SemZero]
  /\ radio_reqs = <<"FIND", "PEER", "STOP_FIND">>
  /\ disp_pc = "idle"
  /\ last_ntf = NoNtf
  /\ sink = <<>>
  /\ n_device_found = 0
  /\ discovered_peers \in SelPeerLists
  /\ target_peer = NoPeer
  /\ p2p_pairing_in_progress = TRUE
  /\ dhcp_bound_handled = FALSE
  /\ workq = <<>>
  /\ wq_pc = "stop_sleep"
  /\ wifi_pc = "wait_ready"
  /\ btn_pc = "idle"
  /\ udp_socket = -1
  /\ socks = [f \in Fds |-> "closed"]
  /\ udp_echo_stop_flag = FALSE
  /\ echo_stats = [StatsZero EXCEPT !.rtt_min_us = 0]
  /\ rtt_log = <<>>
  /\ srv = [pc |-> "none", sock |-> -1]
  /\ cli = [pc |-> "none", sock |-> -1, seq |-> 0, timer |-> 0]
  /\ stop_timer = [k \in {"disp", "btn"} |-> 0]
  /\ env_events = 1
  /\ formation_ntfs = {}
  /\ ap_enabled = FALSE
  /\ joined_sta = NullInfo
  /\ api_call = NoCall

NextSelect == ConnectSelect \/ ConnectAfterNegWait

SelectSpec == InitSelect /\ [][NextSelect]_vars

\* The step of p2p_connect_handler that selects the target peer.
SelectStep == wq_pc = "stop_sleep" /\ wq_pc' # "stop_sleep"

\* Entry k of peers has the highest RSSI and is the first entry that has it.
IsFirstStrongest(peers, k) ==
  /\ k \in 1..Len(peers)
  /\ \A i \in 1..Len(peers) : peers[i].rssi <= peers[k].rssi
  /\ \A i \in 1..(k - 1) : peers[i].rssi < peers[k].rssi

\* C14: without a hardware-address filter the selected peer is the one of
\* highest RSSI and, among several of that RSSI, the first in the list.
C14_HighestRssiFirstOnTies ==
  [][(SelectStep /\ cfg.target_mac = <<>>)
       => IsFirstStrongest(discovered_peers, target_peer')]_vars

\* Three peers, the second and the third tied above the first: the second is
\* the target.
C14_Witness ==
  /\ cfg.target_mac = <<>>
  /\ wq_pc \in {"neg_wait", "connect_req"}
  /\ Len(discovered_peers) = 3
  /\ discovered_peers[1].rssi < discovered_peers[2].rssi
  /\ discovered_peers[2].rssi = discovered_peers[3].rssi
  /\ target_peer = 2

\* A filter of the documented format "xx:xx:xx:xx:xx:xx": six fields, each one
\* byte.
WellFormedFilter(f) == Len(f) = 6 /\ \A i \in 1..6 : f[i] \in 0..255

\* C15: with a hardware-address filter configured, the selected peer is one
\* whose address equals the filter; if no discovered peer has that address, or
\* the filter is malformed, no peer is selected, no connect request is issued
\* and p2p_pairing_in_progress is cleared.
C15_FilterSelectsExactMatch ==
  [][(SelectStep /\ cfg.target_mac # <<>>)
       => IF /\ WellFormedFilter(cfg.target_mac)
             /\ \E i \in 1..Len(discovered_peers) :
                   discovered_peers[i].mac = cfg.target_mac
            THEN /\ target_peer' # NoPeer
                 /\ discovered_peers[target_peer'].mac = cfg.target_mac
            ELSE /\ target_peer' = NoPeer
                 /\ radio_reqs' = radio_reqs
                 /\ ~p2p_pairing_in_progress']_vars

\* ---- round-trip statistics
RECURSIVE SeqSum(_)
SeqSum(s) == IF s = <<>> THEN 0 ELSE Head(s) + SeqSum(Tail(s))
SeqMin(s) == CHOOSE x \in {s[i] : i \in 1..Len(s)} : \A i \in 1..Len(s) : x <= s[i]
SeqMax(s) == CHOOSE x \in {s[i] : i \in 1..Len(s)} : \A i \in 1..Len(s) : x >= s[i]

\* C16: once the client has measured round trips, rtt_min_us is the smallest
\* sample, rtt_max_us the largest, and rtt_avg_us the sum of the samples
\* divided by packets_received, the remainder dropped.
C16_RttAggregates ==
  rtt_log # <<>>
    => /\ echo_stats.rtt_min_us = SeqMin(rtt_log)
       /\ echo_stats.rtt_max_us = SeqMax(rtt_log)
       /\ echo_stats.rtt_avg_us = SeqSum(rtt_log) \div echo_stats.packets_received

\* ---- the client's statistics on their own
\* udp_echo_print_stats: the loss percentage it logs, or nothing when no packet
\* was sent. The product is an unsigned word.
udp_echo_print_stats(st) ==
  IF st.packets_sent > 0
    THEN <<((st.packets_lost * 100) % (UINT32_MAX + 1)) \div st.packets_sent>>
    ELSE <<>>

\* The statistics after the replies of log, and after n timeouts.
RECURSIVE RepliesOn(_, _)
RepliesOn(st, log) ==
  IF log = <<>> THEN st ELSE RepliesOn(ClientOnReply(st, PacketSize, Head(log)), Tail(log))
TimeoutsOn(st, n) ==
  [st EXCEPT !.packets_sent = @ + n, !.packets_lost = @ + n,
             !.bytes_sent = @ + n * PacketSize]

\* Round-trip times the client can measure, and the smallest packets_lost
\* whose hundredfold does not fit an unsigned word.
StatsSamples == {5000, 10000, 20000}
LossOverflowAt == UINT32_MAX \div 100 + 1

\* An echo client session that runs alone with count 0 (no limit), at the head
\* of its loop after at most MaxSeq replies followed by 0, 1 or LossOverflowAt
\* timeouts.
InitStats ==
  /\ iface = TRUE /\ link_up = TRUE /\ user_event_cb = TRUE
  /\ p2p_mgmt_cb = TRUE /\ dhcp_bound_cb = TRUE
  /\ cfg = [go_intent |-> 0, frequency |-> 2412, target_mac |-> <<>>, count |-> 0]
  /\ env = [peer_lists |-> {<<>>, <<PeerA>>, <<PeerA, PeerB, PeerC, PeerD>>},
            rtts |-> StatsSamples]
  /\ ctx = [CtxZero EXCEPT !.state = "CONNECTING", !.role = "CLI",
                           !.frequency = 2412]
  /\ sems = [g \in GateNames |->
               IF g = "p2p_connect_sem" THEN [count |-> 1, given |-> TRUE]
               ELSE IF g = "p2p_group_formed_sem" THEN [count |-> 0, given |-> TRUE]
               ELSE SemZero]
  /\ radio_reqs = <<"FIND", "PEER", "STOP_FIND", "CONNECT", "DHCP_START">>
  /\ disp_pc = "idle" /\ last_ntf = NoNtf /\ sink = <<>>
  /\ n_device_found = 0
  /\ discovered_peers = <<PeerA>>
  /\ target_peer = 1
  /\ p2p_pairing_in_progress = FALSE
  /\ dhcp_bound_handled = TRUE
  /\ workq = <<>> /\ wq_pc = "idle"
  /\ wifi_pc = "wait_change" /\ btn_pc = "idle"
  /\ udp_socket = 0
  /\ socks \in {[f \in Fds |-> IF f = 0 THEN t ELSE "closed"] : t \in {"timeo", "notimeo"}}
  /\ udp_echo_stop_flag = FALSE
  /\ rtt_log \in UNION {[1..k -> StatsSamples] : k \in 0..MaxSeq}
  /\ \E n \in {0, 1, LossOverflowAt} :
       /\ echo_stats = TimeoutsOn(RepliesOn(StatsZero, rtt_log), n)
       /\ cli = IF Len(rtt_log) + n = 0
                  THEN [pc |-> "start", sock |-> -1, seq |-> 0, timer |-> 0]
                  ELSE [pc |-> "loop", sock |-> 0, seq |-> Len(rtt_log) + n, timer |-> 0]
  /\ srv = [pc |-> "none", sock |-> -1]
  /\ stop_timer = [k \in {"disp", "btn"} |-> 0]
  /\ env_events = MaxEvents
  /\ formation_ntfs = {}
  /\ ap_enabled = FALSE
  /\ joined_sta = NullInfo
  /\ api_call = NoCall

NextStats == ClientLoop \/ ClientRecv \/ Tick

StatsSpec == InitStats /\ [][NextStats]_vars

\* The step of the client loop that counts a lost packet.
ReplyTimeoutStep ==
  /\ cli.pc = "recv" /\ cli'.pc = "loop"
  /\ echo_stats'.packets_lost = echo_stats.packets_lost + 1

\* C17: a reply timeout adds one to packets_sent and to packets_lost and leaves
\* packets_received and the round-trip aggregates as they were; the loss
\* percentage reported is packets_lost * 100 / packets_sent, the remainder
\* dropped, and none is reported while packets_sent is 0.
C17_TimeoutAndLossPercentage ==
  /\ [][ReplyTimeoutStep
          => /\ echo_stats'.packets_sent = echo_stats.packets_sent + 1
             /\ echo_stats'.packets_received = echo_stats.packets_received
             /\ echo_stats'.bytes_received = echo_stats.bytes_received
             /\ echo_stats'.rtt_min_us = echo_stats.rtt_min_us
             /\ echo_stats'.rtt_max_us = echo_stats.rtt_max_us
             /\ echo_stats'.rtt_avg_us = echo_stats.rtt_avg_us
             /\ echo_stats'.rtt_total_us = echo_stats.rtt_total_us]_vars
  /\ [](udp_echo_print_stats(echo_stats) =
          IF echo_stats.packets_sent = 0
            THEN <<>>
            ELSE <<(echo_stats.packets_lost * 100) \div echo_stats.packets_sent>>)

\* ---- the role a device observes
\* The step of p2p_connect_handler in which
\* wifi_p2p_wait_for_group_formation returns 0.
GroupWaitSucceeds ==
  /\ wq_pc = "wait_group" /\ wq_pc' # "wait_group"
  /\ wifi_p2p_wait_for_group_formation(sems, ctx, TIMEOUT_MS) = 0

\* The context still holds what wifi_p2p_connect stored for this attempt:
\* wifi_p2p_init has not run since.
ConnectStored == ctx.frequency = cfg.frequency

\* C18: when the wait for group formation succeeds in an attempt, a device of
\* intent 15 reads role GO and takes the coordinator branch; a device of intent
\* 0, which the radio subsystem has not made the owner of the group, reads
\* role CLI and takes the non-coordinator branch.
C18_RoleFollowsIntent ==
  [][(GroupWaitSucceeds /\ ConnectStored)
       => /\ cfg.go_intent = 15 => (ctx.role = "GO" /\ wq_pc' = "wait_ap_sta")
          /\ (cfg.go_intent = 0 /\ ctx.role # "GO")
               => (ctx.role = "CLI" /\ wq_pc' = "dhcp_start_delay")]_vars

\* A device of intent 15 in the coordinator branch, its group formed and a
\* connect result handled.
C18_Witness ==
  /\ cfg.go_intent = 15
  /\ wq_pc = "wait_ap_sta"
  /\ ConnectStored
  /\ ctx.role = "GO"
  /\ ctx.state = "CONNECTED"

\* ---- the waits as functions of their timeout
\* Timeouts a caller can pass: none (poll), and a positive one.
WaitTimeouts == {0, TIMEOUT_MS}

\* What the header promises for a wait on gate g.
PromisedWaitResult(g) ==
  IF sems[g].count = 0 THEN -ETIMEDOUT
  ELSE IF ctx.state = "ERROR" THEN -EIO
  ELSE 0

\* C19: wifi_p2p_wait_for_group_formation returns -ETIMEDOUT when
\* p2p_group_formed_sem is not given within the timeout, -EIO when it is given
\* and the state is ERROR, and 0 otherwise; wifi_p2p_wait_for_connection does
\* the same on p2p_connect_sem.
C19_WaitReturnValues ==
  \A t \in WaitTimeouts :
    /\ wifi_p2p_wait_for_group_formation(sems, ctx, t) =
         PromisedWaitResult("p2p_group_formed_sem")
    /\ wifi_p2p_wait_for_connection(sems, ctx, t) =
         PromisedWaitResult("p2p_connect_sem")

\* ---- initialization
\* The pass of start_wifi_thread that calls wifi_p2p_init.
InitStep == wifi_pc = "wait_ready" /\ wifi_pc' = "wait_change"

\* C20: when wifi_p2p_init has run, the state is IDLE, the role UNDETERMINED,
\* peer_count 0, the peer address zero, group_formed and connected false, and
\* none of the five gates is signalled, whatever they were before.
C20_InitResetsContextAndGates ==
  [][InitStep
       => /\ ctx'.state = "IDLE"
          /\ ctx'.role = "UNDETERMINED"
          /\ ctx'.peer_count = 0
          /\ ctx'.peer_mac = MacZero
          /\ ~ctx'.group_formed
          /\ ~ctx'.connected
          /\ \A g \in GateNames : sems'[g].count = 0]_vars

\* wifi_p2p_init has run while p2p_connect_handler of a device of intent 15 was
\* waiting for group formation, that is over a context with state CONNECTING,
\* role GO and the connect parameters stored.
C20_Witness ==
  /\ cfg.go_intent = 15
  /\ wq_pc = "wait_group"
  /\ wifi_pc = "wait_change"
  /\ ctx = CtxZero
  /\ \A g \in GateNames : sems[g].count = 0

\* ---- group formation per attempt
\* C21: in a pairing attempt wifi_p2p_wait_for_group_formation returns 0 only
\* if a connect-result success or an AP-enable success was handled after the
\* attempt's connect request was issued; a signal of p2p_group_formed_sem that
\* was pending before it never satisfies the wait.
C21_GroupWaitNeedsFreshSuccess ==
  [][GroupWaitSucceeds
       => formation_ntfs \cap {"CONNECT_OK", "AP_ENABLE_OK"} # {}]_vars

\* The negotiation window of an attempt: wifi_p2p_connect has returned 0, the
\* wait for group formation has not ended, and neither a connect-result success
\* nor an AP-enable result was handled since the request was issued.
InNegotiationWindow == wq_pc = "wait_group" /\ formation_ntfs = {}

\* C22: throughout the negotiation window the state is CONNECTING, and every
\* connect-result failure handled in it is absorbed: no field of the context,
\* no gate and nothing forwarded to the user callback, whichever peer-found
\* notifications were handled in the window before it.
C22_WindowStaysConnecting ==
  /\ [](InNegotiationWindow => ctx.state = "CONNECTING")
  /\ [][(InNegotiationWindow /\ ConnectFailureStep)
          => (ctx' = ctx /\ sems' = sems /\ sink' = <<>>)]_vars

\* ---- the role
\* The step in which the event thread handles a connect-result success or an
\* AP-enable success.
FormationSuccessStep ==
  /\ disp_pc = "idle"
  /\ disp_pc' = "ret"
  /\ FormationResult(last_ntf') \cap {"CONNECT_OK", "AP_ENABLE_OK"} # {}

\* A step of wifi_p2p_connect: its request is issued, or it returns.
ConnectCallStep ==
  \/ wq_pc \in {"stop_sleep", "neg_wait"} /\ wq_pc' = "connect_req"
  \/ wq_pc = "connect_req" /\ wq_pc' # "connect_req"

\* C23: the role is UNDETERMINED after initialization and leaves UNDETERMINED
\* only in a step that handles a connect-result success or an AP-enable
\* success; a step of the connect call leaves the role as it is.
C23_RoleResolvedOnlyByNegotiation ==
  /\ [][InitStep => ctx'.role = "UNDETERMINED"]_vars
  /\ [][(ctx.role = "UNDETERMINED" /\ ctx'.role # "UNDETERMINED")
          => FormationSuccessStep]_vars
  /\ [][ConnectCallStep => ctx'.role = ctx.role]_vars

\* ---- the handlers, notification by notification
\* The events a sink holds, in the order they were forwarded.
Events(snk) == [i \in 1..Len(snk) |-> snk[i].ev]

\* The step in which the event thread handles a connect-result success.
ConnectSuccessStep ==
  /\ disp_pc = "idle"
  /\ disp_pc' = "ret"
  /\ last_ntf'.kind = "CONNECT_RESULT"
  /\ last_ntf'.status = 0

\* C24: on a connect-result success, if the role is GO because an AP-enable
\* success was handled earlier, PEER_JOINED is forwarded and the role stays GO;
\* otherwise the role becomes CLI and CONNECTED is forwarded; in both cases
\* state = CONNECTED, connected and group_formed are true, and p2p_connect_sem
\* and p2p_group_formed_sem are given.
C24_ConnectSuccess ==
  [][ConnectSuccessStep
       => /\ IF ctx.role = "GO" /\ ap_enabled
               THEN ctx'.role = "GO" /\ Events(sink') = <<"PEER_JOINED">>
               ELSE ctx'.role = "CLI" /\ Events(sink') = <<"CONNECTED">>
          /\ ctx'.state = "CONNECTED"
          /\ ctx'.connected
          /\ ctx'.group_formed
          /\ sems'["p2p_connect_sem"].count = 1
          /\ sems'["p2p_group_formed_sem"].count = 1]_vars

\* ---- the event dispatcher on its own
\* wifi_p2p_init has run on the first Wi-Fi-ready callback and nothing else has
\* happened; the driver, which keeps the interface dormant while no connection
\* is established, has put it back to dormant or has not.
InitDispatcher ==
  /\ iface = TRUE
  /\ link_up \in BOOLEAN
  /\ user_event_cb = TRUE
  /\ p2p_mgmt_cb = TRUE
  /\ dhcp_bound_cb = FALSE
  /\ cfg = [go_intent |-> 7, frequency |-> 2412, target_mac |-> <<>>, count |-> MaxSeq]
  /\ env = [peer_lists |-> {<<>>, <<PeerA>>, <<PeerA, PeerB, PeerC, PeerD>>}, rtts |-> {1000}]
  /\ ctx = CtxZero
  /\ sems = [g \in GateNames |-> SemZero]
  /\ radio_reqs = <<>>
  /\ disp_pc = "idle"
  /\ last_ntf = NoNtf
  /\ sink = <<>>
  /\ n_device_found = 0
  /\ discovered_peers = <<>>
  /\ target_peer = NoPeer
  /\ p2p_pairing_in_progress = FALSE
  /\ dhcp_bound_handled = FALSE
  /\ workq = <<>>
  /\ wq_pc = "idle"
  /\ wifi_pc = "wait_change"
  /\ btn_pc = "idle"
  /\ udp_socket = -1
  /\ socks = [f \in Fds |-> "closed"]
  /\ udp_echo_stop_flag = FALSE
  /\ echo_stats = [StatsZero EXCEPT !.rtt_min_us = 0]
  /\ rtt_log = <<>>
  /\ srv = [pc |-> "none", sock |-> -1]
  /\ cli = [pc |-> "none", sock |-> -1, seq |-> 0, timer |-> 0]
  /\ stop_timer = [k \in {"disp", "btn"} |-> 0]
  /\ env_events = 0
  /\ formation_ntfs = {}
  /\ ap_enabled = FALSE
  /\ joined_sta = NullInfo
  /\ api_call = NoCall

\* The event thread alone: MaxEvents notifications are handled one after the
\* other.
NextDispatcher ==
  \/ DeliverNotification
  \/ EventThreadStopEnd
  \/ DispatchReturn
  \/ Tick

DispatcherSpec == InitDispatcher /\ [][NextDispatcher]_vars

\* The step in which the event thread handles an AP-enable result.
ApEnableStep ==
  /\ disp_pc = "idle"
  /\ disp_pc' = "ret"
  /\ last_ntf'.kind = "AP_ENABLE_RESULT"

\* C25: on an AP-enable success, role = GO, group_formed = true,
\* state = GROUP_FORMED and connected = true are set and the interface is
\* activated by the time p2p_group_formed_sem is given, and GROUP_STARTED is
\* forwarded, its receiver seeing these values; on an AP-enable failure,
\* state = ERROR, p2p_group_formed_sem is given and CONNECT_FAILED is forwarded.
C25_ApEnableResult ==
  [][ApEnableStep
       => IF last_ntf'.status = 0
            THEN /\ ctx' = [ctx EXCEPT !.role = "GO", !.group_formed = TRUE,
                                       !.state = "GROUP_FORMED", !.connected = TRUE]
                 /\ link_up'
                 /\ sems'["p2p_group_formed_sem"].count = 1
                 /\ Events(sink') = <<"GROUP_STARTED">>
                 /\ sink'[1].state = "GROUP_FORMED"
                 /\ sink'[1].role = "GO"
                 /\ sink'[1].connected
            ELSE /\ ctx' = [ctx EXCEPT !.state = "ERROR"]
                 /\ sems'["p2p_group_formed_sem"].count = 1
                 /\ Events(sink') = <<"CONNECT_FAILED">>]_vars

\* An AP-enable success has just been handled, after a connect result that had
\* given p2p_connect_sem.
C25_Witness ==
  /\ disp_pc = "ret"
  /\ last_ntf.kind = "AP_ENABLE_RESULT"
  /\ last_ntf.status = 0
  /\ ctx.role = "GO"
  /\ ctx.state = "GROUP_FORMED"
  /\ link_up
  /\ sems["p2p_group_formed_sem"].count = 1
  /\ sems["p2p_connect_sem"].count = 1

\* The step in which the event thread handles a station-disconnected
\* notification.
StaDisconnectedStep ==
  /\ disp_pc = "idle"
  /\ disp_pc' # "idle"
  /\ last_ntf'.kind = "AP_STA_DISCONNECTED"

\* C26: a station-disconnected notification whose address equals peer_mac sets
\* connected = false, clears peer_mac, changes nothing else of the context and
\* forwards exactly PEER_LEFT; one for any other address leaves the context and
\* the gates as they are and forwards nothing.
C26_StaDisconnectedOnlyTrackedPeer ==
  [][StaDisconnectedStep
       => IF last_ntf'.mac = ctx.peer_mac
            THEN /\ ctx' = [ctx EXCEPT !.connected = FALSE, !.peer_mac = MacZero]
                 /\ Events(sink') = <<"PEER_LEFT">>
                 /\ ~sink'[1].connected
            ELSE /\ ctx' = ctx
                 /\ sems' = sems
                 /\ sink' = <<>>]_vars

\* The coordinator's station has connected and has just disconnected.
C26_Witness ==
  /\ last_ntf.kind = "AP_STA_DISCONNECTED"
  /\ disp_pc = "stop_sleep"
  /\ ctx.role = "GO"
  /\ ctx.group_formed
  /\ ~ctx.connected
  /\ ctx.peer_mac = MacZero
  /\ sems["p2p_ap_sta_connected_sem"].count = 1
  /\ udp_echo_stop_flag

\* C27: on the coordinator, a station-disconnected notification for the
\* station whose station-connected notification was handled last clears
\* connected and forwards PEER_LEFT, whichever peer-found notifications were
\* handled in between.
C27_JoinedStationLeaves ==
  [][(StaDisconnectedStep /\ ctx.role = "GO" /\ last_ntf'.mac = joined_sta)
       => /\ ~ctx'.connected
          /\ Events(sink') = <<"PEER_LEFT">>]_vars

\* The step in which the event thread handles a station-connected
\* notification.
StaConnectedStep ==
  /\ disp_pc = "idle"
  /\ disp_pc' = "ret"
  /\ last_ntf'.kind = "AP_STA_CONNECTED"

\* C28: a station-connected notification sets connected = true, stores the
\* station's address in peer_mac, changes nothing else of the context, gives
\* p2p_ap_sta_connected_sem, and forwards PEER_JOINED and then
\* AP_STA_CONNECTED, both with the context as updated.
C28_StaConnected ==
  [][StaConnectedStep
       => /\ ctx' = [ctx EXCEPT !.connected = TRUE, !.peer_mac = last_ntf'.mac]
          /\ sems'["p2p_ap_sta_connected_sem"].count = 1
          /\ Events(sink') = <<"PEER_JOINED", "AP_STA_CONNECTED">>
          /\ \A i \in 1..2 : sink'[i].connected]_vars

\* A station has just joined the coordinator's group, after a peer-found
\* notification.
C28_Witness ==
  /\ disp_pc = "ret"
  /\ last_ntf.kind = "AP_STA_CONNECTED"
  /\ last_ntf.mac = MacB
  /\ ctx.role = "GO"
  /\ ctx.peer_count = 1
  /\ ctx.peer_mac = MacB
  /\ ctx.connected
  /\ joined_sta = MacB
  /\ sems["p2p_ap_sta_connected_sem"].count = 1
  /\ sems["p2p_find_sem"].count = 1

\* ---- the gates
\* The step in which a wait of p2p_connect_handler on gate g ends.
GateWaitStep(g) ==
  \/ g = "p2p_group_formed_sem" /\ wq_pc = "wait_group" /\ wq_pc' # "wait_group"
  \/ g = "p2p_ap_sta_connected_sem" /\ wq_pc = "wait_ap_sta" /\ wq_pc' # "wait_ap_sta"

\* C29: a gate holds at most one signal, however many were given with no
\* waiter; a wait that ends takes the signal, if there is one, and leaves none,
\* so that a wait following it with no new signal times out; and a gate gets a
\* signal only in a step of the event thread that handles a notification.
C29_GateSignalledAtMostOnce ==
  /\ [](\A g \in GateNames : sems[g].count \in {0, 1})
  /\ [][\A g \in GateNames :
          /\ GateWaitStep(g)
               => /\ sems'[g].count = 0
                  /\ k_sem_take_ret(sems', g, TIMEOUT_MS) = -EAGAIN
                  /\ \A h \in GateNames \ {g} : sems'[h] = sems[h]
          /\ sems'[g].count > sems[g].count
               => (disp_pc = "idle" /\ disp_pc' # "idle")]_vars

\* An AP-enable success and a connect-result success both gave
\* p2p_group_formed_sem while p2p_connect_handler had not yet ended its wait;
\* the wait has ended and the gate holds no signal.
C29_Witness ==
  /\ wq_pc = "wait_ap_sta"
  /\ formation_ntfs = {"AP_ENABLE_OK", "CONNECT_OK"}
  /\ sems["p2p_group_formed_sem"].count = 0
  /\ sems["p2p_connect_sem"].count = 1
  /\ wifi_p2p_wait_for_group_formation(sems, ctx, TIMEOUT_MS) = -ETIMEDOUT

\* ---- the in-flight flag and state CONNECTING
\* C30: in every state in which the context's state is CONNECTING, a pairing
\* attempt is in flight (p2p_pairing_in_progress is set); an attempt given up
\* after a group-formation timeout included.
C30_ConnectingImpliesInFlight ==
  ctx.state = "CONNECTING" => p2p_pairing_in_progress

\* ---- the context a forwarded event carries
\* C31: the CONNECTED or PEER_JOINED event forwarded for a connect-result
\* success carries the context as updated for that event: the callback sees
\* state CONNECTED and connected true.
C31_SinkSeesUpdatedContext ==
  [][ConnectSuccessStep
       => \A i \in 1..Len(sink') :
            sink'[i].state = "CONNECTED" /\ sink'[i].connected]_vars

\* ---- an attempt given up at the group-formation wait
\* The step in which the wait of p2p_connect_handler for group formation ends
\* by its timeout, or ends with the gate released and state ERROR.
GroupWaitFailsStep ==
  /\ wq_pc = "wait_group"
  /\ wq_pc' # "wait_group"
  /\ \/ sems["p2p_group_formed_sem"].count = 0
     \/ ctx.state = "ERROR"

\* C32: when the wait for group formation times out, or the state is ERROR
\* when the gate is released, the attempt is given up: p2p_connect_handler
\* returns with the in-flight flag cleared, having issued neither the
\* coordinator's network setup nor the address request, registered no
\* address-bound callback, submitted no work and started no echo server or
\* client.
C32_FailedGroupWaitAbortsAttempt ==
  [][GroupWaitFailsStep
       => /\ wq_pc' = "idle"
          /\ ~p2p_pairing_in_progress'
          /\ \A i \in 1..Len(radio_reqs') :
               radio_reqs'[i] \notin {"GO_SETUP", "DHCP_START"}
          /\ UNCHANGED <<radio_reqs, dhcp_bound_cb, dhcp_bound_handled, workq,
                         udp_socket, socks, udp_echo_stop_flag, srv, cli>>]_vars

\* An attempt has been given up on state ERROR: an AP-enable failure was
\* handled after the connect request, the wait took the gate it gave, and
\* the handler has returned with no echo session started.
C32_Witness ==
  /\ wq_pc = "idle"
  /\ ~p2p_pairing_in_progress
  /\ ctx.state = "ERROR"
  /\ formation_ntfs = {"AP_ENABLE_FAILED"}
  /\ sems["p2p_group_formed_sem"] = [count |-> 0, given |-> TRUE]
  /\ radio_reqs # <<>>
  /\ radio_reqs[Len(radio_reqs)] = "CONNECT"
  /\ srv.pc = "none" /\ cli.pc = "none"

\* ---- the order of the requests of an attempt
\* The step in which wifi_p2p_connect issues its request.
ConnectIssuedStep ==
  /\ Len(radio_reqs') = Len(radio_reqs) + 1
  /\ radio_reqs'[Len(radio_reqs')] = "CONNECT"

\* C33: in an attempt every connect request comes after a stop-discovery
\* request, and the handler has slept the stop delay in between; a device of
\* intent 0 issues the connect request only when the negotiation-request
\* delay, which it begins after the stop delay, is over.
C33_StopFindBeforeConnect ==
  /\ [](\A i \in 1..Len(radio_reqs) :
          radio_reqs[i] = "CONNECT"
            => \E j \in 1..(i - 1) : radio_reqs[j] = "STOP_FIND")
  /\ [][ConnectIssuedStep
          => /\ wq_pc \in {"stop_sleep", "neg_wait"}
             /\ cfg.go_intent = 0 => wq_pc = "neg_wait"]_vars
  /\ [][(wq_pc' = "neg_wait" /\ wq_pc # "neg_wait")
          => wq_pc = "stop_sleep"]_vars
  /\ [][(wq_pc' = "stop_sleep" /\ wq_pc # "stop_sleep")
          => (wq_pc = "stop_req" /\ radio_reqs[Len(radio_reqs)] = "STOP_FIND")]_vars

\* A device of intent 0 has issued its connect request.
C33_Witness ==
  /\ cfg.go_intent = 0
  /\ wq_pc = "connect_req"
  /\ radio_reqs = <<"FIND", "PEER", "STOP_FIND", "CONNECT">>
  /\ ctx.state = "CONNECTING"

\* ---- the address-bound notification
\* A state Spec reaches: an attempt of a device that is not the coordinator by
\* its intent has ended its wait for group formation on a connect-result
\* success and is in the delay before the address request. It is the first
\* attempt (no bound callback yet), or a later one after wifi_p2p_init ran
\* again; the earlier attempt's address-bound notification was then handled or
\* not, and in the first case the echo client it asked for could not be
\* started.
InitBound ==
  /\ iface = TRUE /\ link_up = TRUE /\ user_event_cb = TRUE /\ p2p_mgmt_cb = TRUE
  /\ cfg \in [go_intent : {0, 7}, frequency : {2412}, target_mac : {<<>>},
              count : {MaxSeq}]
  /\ env = [peer_lists |-> {<<>>, <<PeerA>>, <<PeerA, PeerB, PeerC, PeerD>>}, rtts |-> {1000}]
  /\ ctx = [CtxZero EXCEPT !.state = "CONNECTED", !.role = "CLI",
                           !.go_intent = cfg.go_intent, !.frequency = 2412,
                           !.group_formed = TRUE, !.connected = TRUE]
  /\ sems = [g \in GateNames |->
               IF g = "p2p_connect_sem" THEN [count |-> 1, given |-> TRUE]
               ELSE IF g = "p2p_group_formed_sem" THEN [count |-> 0, given |-> TRUE]
               ELSE SemZero]
  /\ radio_reqs = <<"FIND", "PEER", "STOP_FIND", "CONNECT">>
  /\ disp_pc = "idle" /\ last_ntf = NoNtf /\ sink = <<>>
  /\ n_device_found = 0
  /\ discovered_peers = <<PeerA>>
  /\ target_peer = 1
  /\ p2p_pairing_in_progress = TRUE
  /\ dhcp_bound_cb \in BOOLEAN
  /\ dhcp_bound_handled \in {FALSE, dhcp_bound_cb}
  /\ workq = <<>> /\ wq_pc = "dhcp_start_delay"
  /\ wifi_pc = "wait_change" /\ btn_pc = "idle"
  /\ udp_socket = -1
  /\ socks = [f \in Fds |-> "closed"]
  /\ udp_echo_stop_flag = FALSE
  /\ echo_stats = [StatsZero EXCEPT !.rtt_min_us = 0]
  /\ rtt_log = <<>>
  /\ srv = [pc |-> "none", sock |-> -1]
  /\ cli = [pc |-> "none", sock |-> -1, seq |-> 0, timer |-> 0]
  /\ stop_timer = [k \in {"disp", "btn"} |-> 0]
  /\ env_events = 0
  /\ formation_ntfs = {"CONNECT_OK"}
  /\ ap_enabled = FALSE
  /\ joined_sta = NullInfo
  /\ api_call = NoCall

\* The rest of the attempt and what address-bound notifications set off: the
\* event thread, the work queue and the echo client.
NextBound ==
  \/ ConnectDhcpStart
  \/ DeliverDhcpBound
  \/ DispatchReturn
  \/ dhcp_bound_handler
  \/ DhcpStartClient
  \/ ClientLoop
  \/ ClientRecv
  \/ Tick

BoundSpec == InitBound /\ [][NextBound]_vars

\* The step in which p2p_connect_handler calls net_dhcpv4_start.
DhcpRequestStep ==
  /\ Len(radio_reqs') = Len(radio_reqs) + 1
  /\ radio_reqs'[Len(radio_reqs')] = "DHCP_START"
\* The step in which the event thread handles an address-bound notification.
DhcpBoundStep ==
  disp_pc = "idle" /\ disp_pc' = "ret" /\ last_ntf'.kind = "IPV4_DHCP_BOUND"
\* The step in which the echo client thread is created.
ClientStartStep == cli'.pc = "start" /\ cli' # cli

ApStaTimeoutStep ==
  /\ wq_pc = "wait_ap_sta"
  /\ wq_pc' # "wait_ap_sta"
  /\ sems["p2p_ap_sta_connected_sem"].count = 0
\* The step in which start_udp_echo_server creates the server thread on a
\* socket it has just opened.
ServerStartStep ==
  /\ srv' = [pc |-> "start", sock |-> -1]
  /\ udp_socket' \in Fds /\ ~IsOpen(socks, udp_socket') /\ IsOpen(socks', udp_socket')
  /\ ~udp_echo_stop_flag'

\* C35: a timeout of the coordinator's wait for AP-STA-CONNECTED does not end
\* the attempt: the handler goes on to the handshake delay with the attempt
\* still in flight, and after the delay it runs setup_go_network, which calls
\* start_udp_echo_server (the server thread is created unless udp_server_init
\* fails), and then clears the in-flight flag.
C35_ApStaTimeoutNotFatal ==
  /\ [][ApStaTimeoutStep
          => (wq_pc' = "hs_sleep" /\ p2p_pairing_in_progress'
              /\ radio_reqs' = radio_reqs)]_vars
  /\ [][(wq_pc = "hs_sleep" /\ wq_pc' # "hs_sleep")
          => /\ radio_reqs' = Append(radio_reqs, "GO_SETUP")
             /\ ServerStartStep \/ UNCHANGED <<udp_socket, socks, udp_echo_stop_flag, srv>>
             /\ ~p2p_pairing_in_progress'
             /\ wq_pc' = "idle"]_vars
  /\ [](wq_pc = "hs_sleep" => p2p_pairing_in_progress)

\* The coordinator's attempt has ended with the network set up and the echo
\* server thread created, although no station-connected notification was
\* handled since wifi_p2p_init: the wait for it timed out.
C35_Witness ==
  /\ wq_pc = "idle"
  /\ ~p2p_pairing_in_progress
  /\ ctx.role = "GO"
  /\ ~sems["p2p_ap_sta_connected_sem"].given
  /\ joined_sta = NullInfo
  /\ radio_reqs # <<>>
  /\ radio_reqs[Len(radio_reqs)] = "GO_SETUP"
  /\ srv.pc = "start"
  /\ IsOpen(socks, udp_socket)

\* ---- the echo server loop

\* C36: the server loop ends only in a step that finds the stop flag set,
\* whatever zsock_recvfrom and zsock_sendto returned; and a datagram whose
\* echo could not be sent is counted as received only: packets_sent and
\* bytes_sent change only together, by one packet and its length, in a step
\* that also counts the datagram as received.
C36_ServerLoopExitsOnlyOnStop ==
  /\ [][(srv'.pc = "done" /\ srv.pc # "done") => udp_echo_stop_flag]_vars
  /\ [][(srv.pc = "recv" /\ ~udp_echo_stop_flag /\ srv' # srv) => srv'.pc = "recv"]_vars
  /\ [][(srv.pc = "recv" /\ cli' = cli /\ echo_stats' # echo_stats)
          => \/ echo_stats' = ServerOnReceive(echo_stats, PacketSize)
             \/ echo_stats' = ServerOnSent(ServerOnReceive(echo_stats, PacketSize),
                                           PacketSize)]_vars

\* The server loop has ended on the stop flag after a datagram whose echo
\* could not be sent.
C36_Witness ==
  /\ srv.pc = "done"
  /\ udp_echo_stop_flag
  /\ cli.pc = "none"
  /\ echo_stats.packets_received = 1
  /\ echo_stats.packets_sent = 0
  /\ echo_stats.bytes_sent = 0

\* ---- the end of the echo server loop
\* Time passes, a k_sleep of stop_udp_echo ends, the server thread is
\* scheduled, and zsock_recvfrom returns when its handle is closed. No
\* datagram has to arrive: a zsock_recvfrom on an open socket need not return.
EchoFairSpec ==
  /\ FairSpec
  /\ WF_vars(Tick)
  /\ WF_vars(ButtonStopEnd)
  /\ WF_vars(EventThreadStopEnd)
  /\ WF_vars(ServerLoop)
  /\ WF_vars(ServerRecv /\ ~IsOpen(socks, srv.sock))

\* C37: every receive attempt of the server loop is a bounded wait, i.e. the
\* socket it receives on has a receive timeout, and once the stop flag is set
\* a server loop that is running comes to its end, with no datagram arriving.
C37_ServerLoopObservesStop ==
  /\ [](srv.pc = "recv" /\ IsOpen(socks, srv.sock) => socks[srv.sock] = "timeo")
  /\ (udp_echo_stop_flag /\ srv.pc \in {"start", "recv"}) ~> (srv.pc = "done")

\* ---- the event thread
\* C38: no handler run by the event thread blocks: the thread is never inside
\* a k_sleep or a wait while it handles a notification, the call of the user
\* callback included.
C38_HandlersNeverBlock ==
  disp_pc # "stop_sleep"

\* ---- a stop that overlaps the start of a session
\* C39: a stop_udp_echo that is in its grace sleep when a new session is
\* started does not close the new session's socket: in no state is an echo
\* loop running, the stop flag being false, on a socket that is closed.
C39_StopSparesNewSession ==
  ~udp_echo_stop_flag
    => /\ ServerInLoop => IsOpen(socks, srv.sock)
       /\ ClientInLoop => IsOpen(socks, cli.sock)

\* ---- wifi_p2p_utils.h called directly
\* errno values
ENODEV == 19
EINVAL == 22
\* Largest number of requests the direct caller has the functions issue.
MaxCalls == 3

\* What a function of wifi_p2p_utils.h called in context c, reqs being the
\* requests issued so far, hands back: the value returned, the context, the
\* requests. req_ret is what net_mgmt returns for the request.
Ret(ret, c, reqs) == [ret |-> ret, ctx |-> c, reqs |-> reqs]

\* wifi_p2p_find writing the context before it looks for the interface.
wifi_p2p_find_WritesBeforeCheck(c, reqs, req_ret) ==
  LET c1 == [c EXCEPT !.state = "FINDING", !.peer_count = 0]
  IN  IF ~iface THEN Ret(-ENODEV, c1, reqs)
      ELSE IF req_ret # 0
        THEN Ret(req_ret, [c1 EXCEPT !.state = "ERROR"], Append(reqs, "FIND"))
      ELSE Ret(0, c1, Append(reqs, "FIND"))

wifi_p2p_find(c, reqs, req_ret) ==
  IF ~iface THEN Ret(-ENODEV, c, reqs)
  ELSE LET c1 == [c EXCEPT !.state = "FINDING", !.peer_count = 0]
       IN  IF req_ret # 0
             THEN Ret(req_ret, [c1 EXCEPT !.state = "ERROR"], Append(reqs, "FIND"))
             ELSE Ret(0, c1, Append(reqs, "FIND"))

wifi_p2p_stop_find(c, reqs, req_ret) ==
  IF ~iface THEN Ret(-ENODEV, c, reqs)
  ELSE IF req_ret # 0 THEN Ret(req_ret, c, Append(reqs, "STOP_FIND"))
  ELSE Ret(0, [c EXCEPT !.state = "IDLE"], Append(reqs, "STOP_FIND"))

\* peer_mac = NullInfo stands for a NULL pointer.
wifi_p2p_connect(c, reqs, peer_mac, go_intent, freq, req_ret) ==
  IF ~iface THEN Ret(-ENODEV, c, reqs)
  ELSE IF peer_mac = NullInfo THEN Ret(-EINVAL, c, reqs)
  ELSE LET c1 == [c EXCEPT !.go_intent = go_intent, !.frequency = freq,
                           !.state = "CONNECTING"]
       IN  IF req_ret # 0
             THEN Ret(req_ret, [c1 EXCEPT !.state = "ERROR"], Append(reqs, "CONNECT"))
             ELSE Ret(0, RoleByIntent(c1, go_intent), Append(reqs, "CONNECT"))

\* wifi_p2p_get_peers, called with a peer array and a count to write to: what
\* it returns and issues (what it writes to the array is wifi_p2p_get_peers
\* above).
wifi_p2p_get_peers_call(c, reqs, req_ret) ==
  IF ~iface THEN Ret(-ENODEV, c, reqs)
  ELSE Ret(req_ret, c, Append(reqs, "PEER"))

\* The static initial values, with or without a radio interface.
InitApi ==
  /\ InitProgram
  /\ iface \in BOOLEAN
  /\ cfg = [go_intent |-> 7, frequency |-> 2412, target_mac |-> <<>>, count |-> MaxSeq]
  /\ env = [peer_lists |-> {<<>>}, rtts |-> {1000}]

\* The caller has called function fn, which handed back r.
ApiStep(fn, r) ==
  /\ ctx' = r.ctx
  /\ radio_reqs' = r.reqs
  /\ api_call' = [fn |-> fn, ret |-> r.ret]
  /\ UNCHANGED <<sems, user_event_cb, p2p_mgmt_cb, iface, link_up, disp_pc, last_ntf,
                 sink, n_device_found, cfg, env, discovered_peers,
                 p2p_pairing_in_progress, dhcp_bound_handled, dhcp_bound_cb, workq,
                 wq_pc, target_peer, wifi_pc, btn_pc, udp_socket, socks,
                 udp_echo_stop_flag, echo_stats, rtt_log, srv, cli, stop_timer,
                 env_events, formation_ntfs, ap_enabled, joined_sta>>

CallFind ==
  /\ Len(radio_reqs) < MaxCalls
  /\ \E req_ret \in {0, -EIO} :
       ApiStep("wifi_p2p_find", wifi_p2p_find(ctx, radio_reqs, req_ret))

CallStopFind ==
  /\ Len(radio_reqs) < MaxCalls
  /\ \E req_ret \in {0, -EIO} :
       ApiStep("wifi_p2p_stop_find", wifi_p2p_stop_find(ctx, radio_reqs, req_ret))

CallConnect ==
  /\ Len(radio_reqs) < MaxCalls
  /\ \E req_ret \in {0, -EIO}, peer_mac \in {MacA, NullInfo}, go_intent \in {0, 7, 15} :
       ApiStep("wifi_p2p_connect",
               wifi_p2p_connect(ctx, radio_reqs, peer_mac, go_intent, cfg.frequency,
                                req_ret))

CallGetPeers ==
  /\ Len(radio_reqs) < MaxCalls
  /\ \E req_ret \in {0, -EIO} :
       ApiStep("wifi_p2p_get_peers", wifi_p2p_get_peers_call(ctx, radio_reqs, req_ret))

NextApi == CallFind \/ CallStopFind \/ CallConnect \/ CallGetPeers

ApiSpec == InitApi /\ [][NextApi]_vars

\* C40: with no radio interface, a call of wifi_p2p_find, wifi_p2p_stop_find,
\* wifi_p2p_connect or wifi_p2p_get_peers returns -ENODEV, issues no request
\* and leaves every field of the context as it was.
C40_NoInterfaceNoEffect ==
  [][~iface
       => /\ api_call'.fn \in {"wifi_p2p_find", "wifi_p2p_stop_find",
                               "wifi_p2p_connect", "wifi_p2p_get_peers"}
          /\ api_call'.ret = -ENODEV
          /\ ctx' = ctx
          /\ radio_reqs' = radio_reqs]_vars

\* wifi_p2p_connect was called with no radio interface, after other calls or
\* none.
C40_Witness ==
  /\ ~iface
  /\ api_call = [fn |-> "wifi_p2p_connect", ret |-> -ENODEV]
  /\ ctx = CtxZero
  /\ radio_reqs = <<>>

====
